---- MODULE Spec2Model ----
(***************************************************************************)
(* State-machine model of the audio playback and resource-lifecycle engine *)
(* of the sound pad (components/audio-provider.tsx, AudioProvider) and of  *)
(* the edit dialog's calls into it (components/audio-edit-modal.tsx).      *)
(*                                                                         *)
(* Numbers are fixed point, on the grids of the dialog's sliders:          *)
(*   volume, echoDelay, echoFeedback   in twentieths  (slider step 0.05)   *)
(*   balance                           in tenths      (slider step 0.1)    *)
(*   speed                             in quarters    (slider step 0.25)   *)
(*   gains computed on the echo path   in units of 1/GainOne               *)
(*   delays of echo timers             in milliseconds                     *)
(* An HTMLAudioElement is a cell of the heap `audios`, named by its index; *)
(* a node-set is named by the element its source node was created from.    *)
(* A call of the async function playAudio that is suspended at an await is *)
(* an activation record in `calls`.                                        *)
(***************************************************************************)
EXTENDS Integers, Sequences, FiniteSets, TLC

\* ------------------------------------------------------------------ bounds
NumSlots == 7           \* slot ids 1..NumSlots (the program has 36)
MaxCalls == 1           \* playAudio calls suspended at an await at one time
MaxLive == 5            \* HTMLAudioElements alive at one time
MaxListed == 3          \* entries in all instance lists together
MaxBurstLive == 10      \* HTMLAudioElements alive at one time, echo bursts
MaxCount == 1           \* a counter of the ledger, where edits let it grow
MaxSamples == 5         \* samples of a recording

\* ------------------------------------------------------- program constants
MaxInstances == 8       \* limitAudioInstances(id, maxInstances = 8)
SweepLimit == 50        \* totalAudioElements > 50 || totalAudioNodes > 50
Undefined == 0 - 1000   \* JavaScript `undefined` in a numeric optional field
Scale == 20             \* one unit of volume/delay/feedback = 1/20
GainOne == 320000000    \* gain 1.0 = 100 * 20^5 units: exact for i - 1 <= 5

Slots == 1 .. NumSlots
NoAudio == 0
NoClip == 0             \* audioBlob === undefined

PadNames == <<"Pad 1", "Pad 2", "Pad 3", "Pad 4", "Pad 5", "Pad 6",
              "Pad 7", "Pad 8", "Pad 9", "Pad 10", "Pad 11", "Pad 12">>
PadName(id) == PadNames[id]                       \* `Pad ${id}`
StartsWithPad(name) == \E i \in DOMAIN PadNames : name = PadNames[i]
RowColor(id) == IF id <= 6 THEN "slate" ELSE "rose"  \* rowColors[row], two rows

\* ----------------------------------------------------- JavaScript helpers
\* x || d : d replaces undefined and 0 (both falsy)
OrElse(x, d) == IF x = Undefined \/ x = 0 THEN d ELSE x
\* x ?? d : d replaces undefined only
Coalesce(x, d) == IF x = Undefined THEN d ELSE x
\* s || d for strings ("" and undefined are falsy)
OrElseStr(s, d) == IF s = "undefined" \/ s = "" THEN d ELSE s
Truthy(loop) == loop = "true"
Min(a, b) == IF a < b THEN a ELSE b
Max(a, b) == IF a > b THEN a ELSE b

RECURSIVE Pow(_, _)
Pow(b, n) == IF n = 0 THEN 1 ELSE b * Pow(b, n - 1)

\* Array.prototype.indexOf / findIndex, 1-based; 0 when absent
IndexOf(seq, x) ==
  IF \E k \in 1 .. Len(seq) : seq[k] = x
  THEN CHOOSE k \in 1 .. Len(seq) : seq[k] = x /\ \A j \in 1 .. (k - 1) : seq[j] # x
  ELSE 0
\* Array.prototype.splice(k, 1)
RemoveAt(seq, k) == SubSeq(seq, 1, k - 1) \o SubSeq(seq, k + 1, Len(seq))
Range(seq) == {seq[k] : k \in 1 .. Len(seq)}

\* -------------------------------------------------------------- slot data
\* interface AudioData; the key of the map is the id
DefaultData(id) ==
  [name |-> PadName(id), clip |-> NoClip, speed |-> 4, balance |-> 0,
   echoDelay |-> 2, echoFeedback |-> 0, volume |-> 15,
   color |-> RowColor(id), loop |-> "undefined"]

\* what loadData builds for one slot from an entry of localStorage
LoadedData(id, saved) ==
  [name |-> OrElseStr(saved.name, PadName(id)),
   clip |-> saved.clip,
   speed |-> OrElse(saved.speed, 4),
   balance |-> Coalesce(saved.balance, 0),
   echoDelay |-> Coalesce(saved.echoDelay, 2),
   echoFeedback |-> Coalesce(saved.echoFeedback, 0),
   volume |-> Coalesce(saved.volume, 15),
   color |-> OrElseStr(saved.color, RowColor(id)),
   loop |-> saved.loop]

\* a Partial<AudioData> with every field absent
NoFields ==
  [name |-> "undefined", clip |-> NoClip, speed |-> Undefined,
   balance |-> Undefined, echoDelay |-> Undefined, echoFeedback |-> Undefined,
   volume |-> Undefined, color |-> "undefined", loop |-> "undefined"]

\* the object handleSave passes to updateAudioData
SaveFields(name, clip, loop, echoDelay, echoFeedback, volume, balance) ==
  [name |-> name, clip |-> clip, speed |-> 4, balance |-> balance,
   echoDelay |-> echoDelay, echoFeedback |-> echoFeedback, volume |-> volume,
   color |-> "slate", loop |-> loop]

\* the object handleDelete passes to updateAudioData
DeleteFields(id) ==
  [name |-> PadName(id), clip |-> NoClip, speed |-> 4, balance |-> 0,
   echoDelay |-> 0, echoFeedback |-> 0, volume |-> 20,
   color |-> "slate", loop |-> "false"]

\* the new entry updateAudioData stores for slot id
MergeData(id, prev, data) ==
  [name |-> OrElseStr(data.name, OrElseStr(prev.name, PadName(id))),
   speed |-> IF data.speed # Undefined THEN data.speed ELSE OrElse(prev.speed, 4),
   balance |-> IF data.balance # Undefined THEN data.balance
               ELSE OrElse(prev.balance, 0),
   echoDelay |-> IF data.echoDelay # Undefined THEN data.echoDelay
                 ELSE IF prev.echoDelay # Undefined THEN prev.echoDelay ELSE 2,
   echoFeedback |-> IF data.echoFeedback # Undefined THEN data.echoFeedback
                    ELSE OrElse(prev.echoFeedback, 0),
   volume |-> IF data.volume # Undefined THEN data.volume
              ELSE OrElse(prev.volume, 15),
   color |-> IF data.color # "undefined" THEN data.color ELSE prev.color,
   loop |-> IF data.loop # "undefined" THEN data.loop ELSE prev.loop,
   clip |-> IF data.clip # NoClip THEN data.clip ELSE prev.clip]

\* ------------------------------------------ playAudio's pure computations
\* needsWebAudio
NeedsWebAudio(data) ==
  \/ data.balance # 0
  \/ OrElse(data.volume, Scale) > Scale
  \/ (OrElse(data.echoDelay, 0) > 0 /\ OrElse(data.echoFeedback, 0) > 0)

\* hasEcho, had it not looked at data.loop
HasEchoWhenLooping(data) ==
  /\ OrElse(data.echoDelay, 0) > 0
  /\ OrElse(data.echoFeedback, 0) > 0

\* hasEcho
HasEcho(data) ==
  /\ ~Truthy(data.loop)
  /\ OrElse(data.echoDelay, 0) > 0
  /\ OrElse(data.echoFeedback, 0) > 0

\* echoCount, had it not started from 3
EchoCountUnraised(data) == Min((OrElse(data.echoFeedback, 0) * 6) \div Scale, 6)

\* echoCount = Math.min(Math.floor(feedback * 6) + 3, 6)
EchoCount(data) == Min(((OrElse(data.echoFeedback, 0) * 6) \div Scale) + 3, 6)

\* delayMs = Math.max(echoDelay * 1000, 100)
DelayMs(data) == Max((OrElse(data.echoDelay, 0) * 1000) \div Scale, 100)

\* delay = i * delayMs
EchoDelayOf(data, i) == i * DelayMs(data)

\* the local `volume`, had the echoes not started at 60% of the original
EchoVolumeUndamped(data, i) ==
  IF i = 0
  THEN OrElse(data.volume, Scale) * (GainOne \div Scale)
  ELSE \* (volume || 1) * 0.6 * Math.pow(echoFeedback || 0.5, i - 1)
       OrElse(data.volume, Scale) * 5
         * Pow(OrElse(data.echoFeedback, 10), i - 1) * Pow(Scale, 6 - i)

\* the local `volume` of echo i, in units of 1/GainOne
EchoVolume(data, i) ==
  IF i = 0
  THEN OrElse(data.volume, Scale) * (GainOne \div Scale)
  ELSE \* (volume || 1) * 0.6 * Math.pow(echoFeedback || 0.5, i - 1)
       OrElse(data.volume, Scale) * 3
         * Pow(OrElse(data.echoFeedback, 10), i - 1) * Pow(Scale, 6 - i)

\* audio.volume = Math.min(volume, 1)
ElementVolume(v) == Min(v, GainOne)
\* gainNode.gain.value = volume > 1 ? volume : 1
NodeGain(v) == IF v > GainOne THEN v ELSE GainOne
\* the same two for the cached instance, from data.volume || 1
CachedVolume(data) == ElementVolume(OrElse(data.volume, Scale) * (GainOne \div Scale))
CachedNodeGain(data) == NodeGain(OrElse(data.volume, Scale) * (GainOne \div Scale))

\* ------------------------------------------------------------------ state
VARIABLES
  audioData,           \* useState audioData: slot id -> AudioData
  isPlaying,           \* useState isPlaying: slot id -> boolean
  buttonOrder,         \* useState buttonOrder: sequence of slot ids
  outputDeviceId,      \* useState outputDeviceId: "" is the default route
  sinkSupported,       \* 'setSinkId' in HTMLAudioElement.prototype
  audioInstancesRefs,  \* useRef: slot id -> sequence of elements
  audioNodesRef,       \* useRef: slot id -> sequence of node-sets
  cachedAudioRef,      \* useRef: slot id -> cached element, or NoAudio
  resourceCountRef,    \* useRef: { audioElements, audioNodes, objectUrls }
  audioContextRef,     \* useRef: "null", or the state of the AudioContext
  audios,              \* the heap of HTMLAudioElements: a sequence of cells
  calls,               \* playAudio calls suspended at an await
  mounted,             \* the provider's mount effect has not been cleaned up
  cleanupIntervalRef,  \* the setInterval of the sweep is armed
  startupTimer,        \* the setTimeout(performPeriodicCleanup, 30000) is pending
  importing,           \* the archive importData is loading clips from, if any
  chunksRef,           \* the dialog's last recording as the recorder delivered it
  audioBlob,           \* useState audioBlob of the dialog: the clip to be saved
  toast,               \* the toast importData showed last, with the counts in it
  ret                  \* what the last step did, when it was a turn of playAudio

vars == <<audioData, isPlaying, buttonOrder, outputDeviceId, sinkSupported,
          audioInstancesRefs, audioNodesRef, cachedAudioRef, resourceCountRef,
          audioContextRef, audios, calls, mounted, cleanupIntervalRef,
          startupTimer, importing, chunksRef, audioBlob, toast, ret>>

\* no recording: the dialog of a pad without a clip
NoBlob == [type |-> "none", sampleRate |-> 0, channels |-> <<>>]

\* an unused heap cell
FreeAudio ==
  [kind |-> "free", slot |-> 0, clip |-> NoClip, loop |-> FALSE, volume |-> 0,
   playing |-> FALSE, atStart |-> TRUE, timer |-> FALSE, revoked |-> FALSE,
   onended |-> "none", graph |-> "none", nodeGain |-> 0, sink |-> FALSE]

\* new Audio(URL.createObjectURL(data.audioBlob))
NewAudio(id, clip, kind) == [FreeAudio EXCEPT !.kind = kind, !.slot = id, !.clip = clip]

\* no playAudio call in this activation record
NoCall ==
  [pc |-> "idle", id |-> 0, data |-> NoFields, sink |-> FALSE, i |-> 0,
   audio |-> NoAudio, isNew |-> FALSE, path |-> "", regs |-> <<>>,
   plays |-> 0, resumes |-> 0]

NoCounts == [audioElements |-> 0, audioNodes |-> 0, objectUrls |-> 0]

\* ret when the last step was not a turn of playAudio
NoReturn ==
  [turn |-> "", slot |-> 0, path |-> "", data |-> NoFields, regs |-> <<>>, pushed |-> 0,
   plays |-> 0, resumes |-> 0]
\* ret when the last step was a turn of playAudio call c, which had registered
\* n instances before it: path is "" when the turn ended at an await, else
\* how the call returned; pushed counts the instances the turn registered,
\* plays the call's audio.play() so far, resumes its resume() in the catch
Returned(turn, c, n) ==
  [turn |-> turn, slot |-> c.id, path |-> c.path, data |-> c.data,
   regs |-> c.regs, pushed |-> Len(c.regs) - n, plays |-> c.plays,
   resumes |-> c.resumes]

\* the engine's mutable state as one value, threaded through the helpers
Machine ==
  [inst |-> audioInstancesRefs, nodes |-> audioNodesRef, cache |-> cachedAudioRef,
   count |-> resourceCountRef, au |-> audios, playing |-> isPlaying,
   ctx |-> audioContextRef]

\* Elements are garbage collected and the heap is compacted at the end of
\* every handler: an element nothing can reach any more (no list, no cache
\* entry, no suspended call, not playing, no pending timer) has left the
\* heap, and the elements that remain are numbered in the order in which
\* the lists, caches and calls mention them, any others after them in the
\* order of their contents.  The program never looks at such a number.

Distinct(seq) ==   \* seq with only the first occurrence of each element
  LET firsts == {i \in 1 .. Len(seq) : \A j \in 1 .. i - 1 : seq[j] # seq[i]}
  IN [k \in 1 .. Cardinality(firsts) |->
        seq[CHOOSE i \in firsts : Cardinality({j \in firsts : j <= i}) = k]]

RECURSIVE Mentions(_, _, _)
Mentions(m, cl, n) ==   \* what slots 1..n mention, then the suspended calls
  IF n = 0 THEN <<>>
  ELSE Mentions(m, cl, n - 1) \o m.inst[n] \o m.nodes[n] \o <<m.cache[n]>>
RECURSIVE CallMentions(_, _)
CallMentions(cl, k) ==
  IF k = 0 THEN <<>> ELSE Append(CallMentions(cl, k - 1), cl[k].audio)

Code == [free |-> 0, cached |-> 1, echo |-> 2, none |-> 0, connected |-> 1,
         disconnected |-> 2]
Bit(b) == IF b THEN 1 ELSE 0
Key(cell) ==
  <<cell.slot, Code[cell.kind], cell.clip, Bit(cell.loop), cell.volume,
    Bit(cell.playing), Bit(cell.atStart), Bit(cell.timer), Bit(cell.revoked),
    Code[cell.onended], Code[cell.graph], cell.nodeGain, Bit(cell.sink)>>
RECURSIVE LexLeq(_, _)
LexLeq(s, t) ==
  \/ s = <<>>
  \/ Head(s) < Head(t)
  \/ Head(s) = Head(t) /\ LexLeq(Tail(s), Tail(t))
RECURSIVE Sorted(_, _)
Sorted(au, S) ==   \* the elements of S in the order of their contents
  IF S = {} THEN <<>>
  ELSE LET a == CHOOSE x \in S : \A y \in S : LexLeq(Key(au[x]), Key(au[y]))
       IN <<a>> \o Sorted(au, S \ {a})

Collect(m, cl) ==
  LET named == SelectSeq(Distinct(Mentions(m, cl, NumSlots) \o CallMentions(cl, MaxCalls)),
                         LAMBDA a : a # NoAudio)
      busy == {a \in DOMAIN m.au : m.au[a].playing \/ m.au[a].timer} \ Range(named)
      order == named \o Sorted(m.au, busy)
      Renamed(a) == IF a = NoAudio THEN NoAudio ELSE IndexOf(order, a)
  IN [m |-> [m EXCEPT !.au = [k \in 1 .. Len(order) |-> m.au[order[k]]],
                      !.inst = [s \in Slots |-> [k \in 1 .. Len(m.inst[s]) |->
                                                   Renamed(m.inst[s][k])]],
                      !.nodes = [s \in Slots |-> [k \in 1 .. Len(m.nodes[s]) |->
                                                    Renamed(m.nodes[s][k])]],
                      !.cache = [s \in Slots |-> Renamed(m.cache[s])]],
      cl |-> [k \in 1 .. MaxCalls |-> [cl[k] EXCEPT !.audio = Renamed(@)]]]

\* the cell of a new element
Alloc(m) == Len(m.au) + 1

\* store machine m and activation records cl as the next state
Commit(m, cl) ==
  LET g == Collect(m, cl)
  IN /\ audioInstancesRefs' = g.m.inst
     /\ audioNodesRef' = g.m.nodes
     /\ cachedAudioRef' = g.m.cache
     /\ resourceCountRef' = g.m.count
     /\ audios' = g.m.au
     /\ isPlaying' = g.m.playing
     /\ audioContextRef' = g.m.ctx
     /\ calls' = g.cl

\* ------------------------------------------------------- element methods
\* audio.pause()
Pause(au, a) == [au EXCEPT ![a].playing = FALSE]
\* audio.currentTime = 0 (a playing element goes on from the start)
Rewind(au, a) == [au EXCEPT ![a].atStart = ~au[a].playing]
\* URL.revokeObjectURL(audio.src)
Revoke(au, a) == [au EXCEPT ![a].revoked = TRUE]
\* audio.play() fulfilled
Start(au, a) == [au EXCEPT ![a].playing = TRUE, ![a].atStart = FALSE]

\* ------------------------------------------------------------ the helpers
\* cleanupAudioNodes, had it disconnected the node-set without the splice
CleanupAudioNodesKeepsSet(m, id, a) ==
  LET nodeIndex == IndexOf(m.nodes[id], a)
  IN IF nodeIndex > 0
     THEN [m EXCEPT !.count.audioNodes = Max(0, @ - 1),
                    !.au[a].graph = "disconnected"]
     ELSE m

CleanupAudioNodes(m, id, a) ==
  LET nodeIndex == IndexOf(m.nodes[id], a)
  IN IF nodeIndex > 0
     THEN [m EXCEPT !.nodes[id] = RemoveAt(@, nodeIndex),
                    !.count.audioNodes = Max(0, @ - 1),
                    !.au[a].graph = "disconnected"]
     ELSE m

\* the forEach of limitAudioInstances over instancesToRemove
RECURSIVE RemoveInstances(_, _, _)
RemoveInstances(m, id, instancesToRemove) ==
  IF instancesToRemove = <<>> THEN m
  ELSE LET a == Head(instancesToRemove)
           m1 == CleanupAudioNodes([m EXCEPT !.au = Pause(@, a)], id, a)
           m2 == [m1 EXCEPT !.au = Revoke(@, a),
                            !.count.objectUrls = Max(0, @ - 1),
                            !.count.audioElements = Max(0, @ - 1)]
       IN RemoveInstances(m2, id, Tail(instancesToRemove))

\* limitAudioInstances, had it removed only the oldest instance
LimitAudioInstancesOldestOnly(m, id) ==
  LET instances == m.inst[id]
  IN IF Len(instances) >= MaxInstances
     THEN RemoveInstances([m EXCEPT !.inst[id] = Tail(instances)],
                          id, SubSeq(instances, 1, 1))
     ELSE m

\* limitAudioInstances, had it cut the list down to maxInstances entries
LimitAudioInstancesToCap(m, id) ==
  LET instances == m.inst[id]
      n == Len(instances) - MaxInstances
  IN IF Len(instances) >= MaxInstances
     THEN RemoveInstances([m EXCEPT !.inst[id] = SubSeq(instances, n + 1, Len(instances))],
                          id, SubSeq(instances, 1, n))
     ELSE m

LimitAudioInstances(m, id) ==
  LET instances == m.inst[id]
      n == Len(instances) - MaxInstances + 1
  IN IF Len(instances) >= MaxInstances
     THEN RemoveInstances([m EXCEPT !.inst[id] = SubSeq(instances, n + 1, Len(instances))],
                          id, SubSeq(instances, 1, n))
     ELSE m

\* forceCleanupAllAudio, had it left resourceCountRef alone
ForceCleanupKeepsLedger(m) ==
  LET cached == {m.cache[s] : s \in Slots} \ {NoAudio}
      listed == UNION {Range(m.inst[s]) : s \in Slots}
      wired == UNION {Range(m.nodes[s]) : s \in Slots}
      stopped == [a \in DOMAIN m.au |->
                    IF a \in cached \cup listed
                    THEN [m.au[a] EXCEPT !.playing = FALSE, !.atStart = TRUE,
                                         !.revoked = TRUE]
                    ELSE m.au[a]]
  IN [m EXCEPT !.cache = [s \in Slots |-> NoAudio],
               !.inst = [s \in Slots |-> <<>>],
               !.nodes = [s \in Slots |-> <<>>],
               !.au = [a \in DOMAIN m.au |->
                         IF a \in wired THEN [stopped[a] EXCEPT !.graph = "disconnected"]
                         ELSE stopped[a]],
               !.playing = [s \in Slots |-> FALSE]]

\* forceCleanupAllAudio()
ForceCleanupAllAudio(m) ==
  LET cached == {m.cache[s] : s \in Slots} \ {NoAudio}
      listed == UNION {Range(m.inst[s]) : s \in Slots}
      wired == UNION {Range(m.nodes[s]) : s \in Slots}
      stopped == [a \in DOMAIN m.au |->
                    IF a \in cached \cup listed
                    THEN [m.au[a] EXCEPT !.playing = FALSE, !.atStart = TRUE,
                                         !.revoked = TRUE]
                    ELSE m.au[a]]
  IN [m EXCEPT !.cache = [s \in Slots |-> NoAudio],
               !.inst = [s \in Slots |-> <<>>],
               !.nodes = [s \in Slots |-> <<>>],
               !.au = [a \in DOMAIN m.au |->
                         IF a \in wired THEN [stopped[a] EXCEPT !.graph = "disconnected"]
                         ELSE stopped[a]],
               !.playing = [s \in Slots |-> FALSE],
               !.count = NoCounts]

\* echoAudio.onended, had it left the node-set alone
OnEndedEchoKeepsNodes(m, id, a) ==
  LET index == IndexOf(m.inst[id], a)
      m2 == IF index > 0
            THEN [m EXCEPT !.inst[id] = RemoveAt(@, index),
                           !.count.audioElements = Max(0, @ - 1)]
            ELSE m
      m3 == IF m2.inst[id] = <<>> THEN [m2 EXCEPT !.playing[id] = FALSE] ELSE m2
  IN [m3 EXCEPT !.au = Revoke(@, a), !.count.objectUrls = Max(0, @ - 1)]

\* echoAudio.onended
OnEndedEcho(m, id, a) ==
  LET m1 == CleanupAudioNodes(m, id, a)
      index == IndexOf(m1.inst[id], a)
      m2 == IF index > 0
            THEN [m1 EXCEPT !.inst[id] = RemoveAt(@, index),
                            !.count.audioElements = Max(0, @ - 1)]
            ELSE m1
      m3 == IF m2.inst[id] = <<>> THEN [m2 EXCEPT !.playing[id] = FALSE] ELSE m2
  IN [m3 EXCEPT !.au = Revoke(@, a), !.count.objectUrls = Max(0, @ - 1)]

\* audio.onended of the cached instance, had it left the slot marked playing
OnEndedCachedStaysPlaying(m, id, a) ==
  LET index == IndexOf(m.inst[id], a)
      m1 == IF index > 0 THEN [m EXCEPT !.inst[id] = RemoveAt(@, index)] ELSE m
      m3 == [m1 EXCEPT !.au = Revoke(@, a), !.count.objectUrls = Max(0, @ - 1)]
  IN CleanupAudioNodes(m3, id, a)

\* audio.onended of the cached instance without the Math.max(0, ...) clamp
OnEndedCachedUnclamped(m, id, a) ==
  LET index == IndexOf(m.inst[id], a)
      m1 == IF index > 0 THEN [m EXCEPT !.inst[id] = RemoveAt(@, index)] ELSE m
      m2 == IF m1.inst[id] = <<>> THEN [m1 EXCEPT !.playing[id] = FALSE] ELSE m1
      m3 == [m2 EXCEPT !.au = Revoke(@, a), !.count.objectUrls = @ - 1]
  IN CleanupAudioNodes(m3, id, a)

\* audio.onended of the cached instance
OnEndedCached(m, id, a) ==
  LET index == IndexOf(m.inst[id], a)
      m1 == IF index > 0 THEN [m EXCEPT !.inst[id] = RemoveAt(@, index)] ELSE m
      m2 == IF m1.inst[id] = <<>> THEN [m1 EXCEPT !.playing[id] = FALSE] ELSE m1
      m3 == [m2 EXCEPT !.au = Revoke(@, a), !.count.objectUrls = Max(0, @ - 1)]
  IN CleanupAudioNodes(m3, id, a)

\* -------------------------------------------------------------- playAudio
\* What the environment decides during one turn of playAudio:
\*   newCtx    new AudioContext(): throws ("fail"), or the new context's state
\*   wireFail  the echo indices at which building the effect graph throws
\*             (index 0 is also the cached instance's graph)
\*   playOk    audio.play() is fulfilled (an element already playing always is)
WireFailures == {{}, {0, 1}}

\* `return` of call c on the given path
Return(c, path) == [c EXCEPT !.pc = "idle", !.path = path, !.audio = NoAudio]
Step(m, c) == [m |-> m, c |-> c]

\* the echo path: EchoLoop is the head of iteration c.i of the for loop (the
\* element is created, then setSinkId is awaited when a device is selected),
\* EchoBody the rest of the iteration, for element c.audio
RECURSIVE EchoLoop(_, _, _)
RECURSIVE EchoBody(_, _, _)
EchoLoop(m, c, in) ==
  IF c.i > EchoCount(c.data)
  THEN Step([m EXCEPT !.playing[c.id] = TRUE], Return(c, "echo"))
  ELSE LET a == Alloc(m)
           m1 == [m EXCEPT !.au = Append(@, NewAudio(c.id, c.data.clip, "echo"))]
           c1 == [c EXCEPT !.audio = a]
       IN IF c.sink THEN Step(m1, [c1 EXCEPT !.pc = "echoSink"])
          ELSE EchoBody(m1, c1, in)

EchoBody(m, c, in) ==
  LET a == c.audio
      volume == EchoVolume(c.data, c.i)
      delay == EchoDelayOf(c.data, c.i)
      m1 == [m EXCEPT !.count.objectUrls = @ + 1,
                      !.au[a].volume = ElementVolume(volume)]
      m2 == IF m1.ctx = "running" /\ c.i \notin in.wireFail
            THEN [m1 EXCEPT !.nodes[c.id] = Append(@, a),
                            !.count.audioNodes = @ + 1,
                            !.au[a].graph = "connected",
                            !.au[a].nodeGain = NodeGain(volume)]
            ELSE m1
      m3 == [m2 EXCEPT !.inst[c.id] = Append(@, a),
                       !.count.audioElements = @ + 1,
                       !.au[a].timer = TRUE,
                       !.au[a].onended = "echo"]
      c1 == [c EXCEPT !.i = @ + 1, !.audio = NoAudio,
                      !.regs = Append(@, [volume |-> volume, delay |-> delay,
                                          loop |-> m3.au[a].loop])]
  IN EchoLoop(m3, c1, in)

\* the cached path from the graph build to the first audio.play()
CachedBody(m, c, in) ==
  LET a == c.audio
      m1 == IF /\ NeedsWebAudio(c.data) /\ m.ctx # "null" /\ c.isNew
               /\ m.ctx = "running" /\ 0 \notin in.wireFail
            THEN [m EXCEPT !.nodes[c.id] = Append(@, a),
                           !.count.audioNodes = @ + 1,
                           !.au[a].graph = "connected",
                           !.au[a].nodeGain = CachedNodeGain(c.data)]
            ELSE m
      m2 == [m1 EXCEPT !.inst[c.id] = Append(@, a),
                       !.count.audioElements = IF c.isNew THEN @ + 1 ELSE @,
                       !.playing[c.id] = TRUE,
                       !.au[a].onended = "cached"]
      c1 == [c EXCEPT !.regs = Append(@, [volume |-> m2.au[a].volume, delay |-> 0,
                                          loop |-> m2.au[a].loop]),
                      !.plays = @ + 1]
  IN IF in.playOk \/ m2.au[a].playing
     THEN Step([m2 EXCEPT !.au = Start(@, a)], Return(c1, "cached"))
     ELSE Step(m2, [c1 EXCEPT !.pc = "catch"])

\* the cached path, had it left the element's loop flag alone
CachedPathUnlooped(m, c, in) ==
  LET hit == m.cache[c.id] # NoAudio
      a == IF hit THEN m.cache[c.id] ELSE Alloc(m)
      m1 == IF hit THEN [m EXCEPT !.au = Rewind(@, a)]
            ELSE [m EXCEPT !.au = Append(@, NewAudio(c.id, c.data.clip, "cached")),
                           !.cache[c.id] = a,
                           !.count.objectUrls = @ + 1]
      m2 == [m1 EXCEPT !.au[a].volume = CachedVolume(c.data)]
      c1 == [c EXCEPT !.audio = a, !.isNew = ~hit]
  IN IF c.sink THEN Step(m2, [c1 EXCEPT !.pc = "sink"])
     ELSE CachedBody(m2, c1, in)

\* the cached path from the cache lookup to the await of setSinkId
CachedPath(m, c, in) ==
  LET hit == m.cache[c.id] # NoAudio
      a == IF hit THEN m.cache[c.id] ELSE Alloc(m)
      m1 == IF hit THEN [m EXCEPT !.au = Rewind(@, a)]
            ELSE [m EXCEPT !.au = Append(@, NewAudio(c.id, c.data.clip, "cached")),
                           !.cache[c.id] = a,
                           !.count.objectUrls = @ + 1]
      m2 == [m1 EXCEPT !.au[a].volume = CachedVolume(c.data),
                       !.au[a].loop = Truthy(c.data.loop)]
      c1 == [c EXCEPT !.audio = a, !.isNew = ~hit]
  IN IF c.sink THEN Step(m2, [c1 EXCEPT !.pc = "sink"])
     ELSE CachedBody(m2, c1, in)

\* from the computation of needsWebAudio and hasEcho on
AfterContext(m, c, in) ==
  IF HasEcho(c.data) THEN EchoLoop(m, [c EXCEPT !.i = 0], in)
  ELSE CachedPath(m, c, in)

\* playAudio(id), had it not returned at once for a slot without a clip
PlayAudioEntryUnchecked(m, id, data, playing, sink, in) ==
  LET c == [NoCall EXCEPT !.pc = "run", !.id = id, !.data = data, !.sink = sink]
      m1 == LimitAudioInstances(m, id)
  IN IF m1.ctx = "null" /\ in.newCtx = "fail"
     THEN Step(m1, Return(c, "nocontext"))
     ELSE LET m2 == IF m1.ctx = "null" THEN [m1 EXCEPT !.ctx = in.newCtx] ELSE m1
          IN IF m2.ctx = "suspended" THEN Step(m2, [c EXCEPT !.pc = "resume"])
             ELSE AfterContext(m2, c, in)

\* playAudio(id) from its first line to its first await or its return
PlayAudioEntry(m, id, data, playing, sink, in) ==
  LET c == [NoCall EXCEPT !.pc = "run", !.id = id, !.data = data, !.sink = sink]
  IN IF data.clip = NoClip THEN Step(m, Return(c, "noclip"))
     ELSE IF Truthy(data.loop) /\ playing
     THEN LET a == m.cache[id]
              m1 == IF a # NoAudio THEN [m EXCEPT !.au = Rewind(Pause(@, a), a)] ELSE m
          IN Step([m1 EXCEPT !.playing[id] = FALSE], Return(c, "stop"))
     ELSE LET m1 == LimitAudioInstances(m, id)
          IN IF m1.ctx = "null" /\ in.newCtx = "fail"
             THEN Step(m1, Return(c, "nocontext"))
             ELSE LET m2 == IF m1.ctx = "null" THEN [m1 EXCEPT !.ctx = in.newCtx] ELSE m1
                  IN IF m2.ctx = "suspended" THEN Step(m2, [c EXCEPT !.pc = "resume"])
                     ELSE AfterContext(m2, c, in)

\* the lowest free activation record, 0 when all are taken
FreeCall ==
  IF \E k \in 1 .. MaxCalls : calls[k].pc = "idle"
  THEN CHOOSE k \in 1 .. MaxCalls :
         calls[k].pc = "idle" /\ \A j \in 1 .. (k - 1) : calls[j].pc # "idle"
  ELSE 0

\* the next state after a turn of playAudio that left machine r.m and call
\* r.c, with cl the activation records of the calls still suspended
Turn(turn, n, cl, r) ==
  /\ Commit(r.m, cl)
  /\ ret' = Returned(turn, r.c, n)
  /\ UNCHANGED <<audioData, buttonOrder, outputDeviceId, sinkSupported, mounted,
                 cleanupIntervalRef, startupTimer, importing,
                 chunksRef, audioBlob, toast>>

\* activation record k after its call ran a turn and is now r.c
Continue(k, r) == [calls EXCEPT ![k] = IF r.c.pc = "idle" THEN NoCall ELSE r.c]

\* context.resume() is fulfilled: only a suspended or running context resumes
ResumeContext(m, ok) ==
  IF ok /\ m.ctx = "suspended" THEN [m EXCEPT !.ctx = "running"] ELSE m
ResumeFulfilled(m, ok) == ok /\ m.ctx \in {"suspended", "running"}

\* a pad is clicked: playAudio(id) runs to its first await or to its return
PlayAudio(id, in) ==
  /\ mounted
  /\ LET r == PlayAudioEntry(Machine, id, audioData[id], isPlaying[id],
                             outputDeviceId # "" /\ sinkSupported, in)
     IN IF r.c.pc = "idle" THEN Turn("entry", 0, calls, r)
        ELSE /\ FreeCall # 0
             /\ Turn("entry", 0, [calls EXCEPT ![FreeCall] = r.c], r)

\* await audioContextRef.current.resume() settles (line 421)
Resumed(k, ok, in) ==
  /\ calls[k].pc = "resume"
  /\ LET r == AfterContext(ResumeContext(Machine, ok), [calls[k] EXCEPT !.pc = "run"], in)
     IN Turn("resumed", Len(calls[k].regs), Continue(k, r), r)

\* await echoAudio.setSinkId(outputDeviceId) settles (line 441)
EchoSinkSet(k, ok, in) ==
  /\ calls[k].pc = "echoSink"
  /\ LET m == [Machine EXCEPT !.au[calls[k].audio].sink = ok]
         r == EchoBody(m, [calls[k] EXCEPT !.pc = "run"], in)
     IN Turn("echoSinkSet", Len(calls[k].regs), Continue(k, r), r)

\* the await of setSinkId outside a try: a rejection ends the call
SinkSetUncaught(k, ok, in) ==
  /\ calls[k].pc = "sink"
  /\ LET m == [Machine EXCEPT !.au[calls[k].audio].sink = ok]
         r == IF ok THEN CachedBody(m, [calls[k] EXCEPT !.pc = "run"], in)
              ELSE Step(m, Return(calls[k], "failed"))
     IN Turn("sinkSet", Len(calls[k].regs), Continue(k, r), r)

\* await audio.setSinkId(outputDeviceId) settles (line 540)
SinkSet(k, ok, in) ==
  /\ calls[k].pc = "sink"
  /\ LET m == [Machine EXCEPT !.au[calls[k].audio].sink = ok]
         r == CachedBody(m, [calls[k] EXCEPT !.pc = "run"], in)
     IN Turn("sinkSet", Len(calls[k].regs), Continue(k, r), r)

\* await audio.play() rejects: the catch block up to its await (lines 601-604)
PlayRejected(k) ==
  /\ calls[k].pc = "catch"
  /\ LET r == IF audioContextRef = "suspended"
              THEN Step(Machine, [calls[k] EXCEPT !.pc = "retry", !.resumes = @ + 1])
              ELSE Step(Machine, Return(calls[k], "failed"))
     IN Turn("playRejected", Len(calls[k].regs), Continue(k, r), r)

\* the retry, had a second rejection been retried like the first
RetriedAgain(k, ok, playOk) ==
  /\ calls[k].pc = "retry"
  /\ LET a == calls[k].audio
         m == ResumeContext(Machine, ok)
         c == IF ResumeFulfilled(Machine, ok) THEN [calls[k] EXCEPT !.plays = @ + 1]
              ELSE calls[k]
         r == IF ResumeFulfilled(Machine, ok) /\ (playOk \/ m.au[a].playing)
              THEN Step([m EXCEPT !.au = Start(@, a)], Return(c, "cached"))
              ELSE IF ResumeFulfilled(Machine, ok) /\ c.plays < 3
              THEN Step(m, [c EXCEPT !.pc = "catch"])
              ELSE Step(m, Return(c, "failed"))
     IN Turn("retried", Len(calls[k].regs), Continue(k, r), r)

\* the retry: resume() settles, then audio.play() once more (lines 604-608)
Retried(k, ok, playOk) ==
  /\ calls[k].pc = "retry"
  /\ LET a == calls[k].audio
         m == ResumeContext(Machine, ok)
         c == IF ResumeFulfilled(Machine, ok) THEN [calls[k] EXCEPT !.plays = @ + 1]
              ELSE calls[k]
         r == IF ResumeFulfilled(Machine, ok) /\ (playOk \/ m.au[a].playing)
              THEN Step([m EXCEPT !.au = Start(@, a)], Return(c, "cached"))
              ELSE Step(m, Return(c, "failed"))
     IN Turn("retried", Len(calls[k].regs), Continue(k, r), r)

\* ------------------------------------------------- media and timer events
\* the `ended` event of a playing element that does not loop
\* the `ended` event of element a is dispatched to its handler
DispatchEnded(m, a) ==
  CASE m.au[a].onended = "echo" -> OnEndedEcho(m, m.au[a].slot, a)
    [] m.au[a].onended = "cached" -> OnEndedCached(m, m.au[a].slot, a)
    [] OTHER -> m

Ended(a) ==
  /\ audios[a].playing
  /\ ~audios[a].loop
  /\ Commit(DispatchEnded([Machine EXCEPT !.au = Pause(@, a)], a), calls)
  /\ ret' = NoReturn
  /\ UNCHANGED <<audioData, buttonOrder, outputDeviceId, sinkSupported, mounted,
                 cleanupIntervalRef, startupTimer, importing,
                 chunksRef, audioBlob, toast>>

\* the setTimeout of an echo fires: await echoAudio.play() (lines 489-495)
EchoTimer(a, playOk) ==
  /\ audios[a].timer
  /\ LET m == [Machine EXCEPT !.au[a].timer = FALSE]
     IN Commit(IF playOk \/ m.au[a].playing THEN [m EXCEPT !.au = Start(@, a)] ELSE m,
               calls)
  /\ ret' = NoReturn
  /\ UNCHANGED <<audioData, buttonOrder, outputDeviceId, sinkSupported, mounted,
                 cleanupIntervalRef, startupTimer, importing,
                 chunksRef, audioBlob, toast>>

\* the browser suspends or resumes the AudioContext on its own
ContextStateChange ==
  /\ audioContextRef \in {"suspended", "running"}
  /\ audioContextRef' = IF audioContextRef = "running" THEN "suspended" ELSE "running"
  /\ ret' = NoReturn
  /\ UNCHANGED <<audioData, isPlaying, buttonOrder, outputDeviceId, sinkSupported,
                 audioInstancesRefs, audioNodesRef, cachedAudioRef,
                 resourceCountRef, audios, calls, mounted, cleanupIntervalRef,
                 startupTimer, importing,
                 chunksRef, audioBlob, toast>>

\* --------------------------------------------------------- the slot store
\* updateAudioData(id, data)
UpdateAudioData(id, data) ==
  /\ mounted
  /\ LET a == cachedAudioRef[id]
         m == IF a # NoAudio
              THEN [Machine EXCEPT !.au = Revoke(Pause(@, a), a), !.cache[id] = NoAudio]
              ELSE Machine
     IN Commit(m, calls)
  /\ audioData' = [audioData EXCEPT ![id] = MergeData(id, audioData[id], data)]
  /\ ret' = NoReturn
  /\ UNCHANGED <<buttonOrder, outputDeviceId, sinkSupported, mounted,
                 cleanupIntervalRef, startupTimer, importing,
                 chunksRef, audioBlob, toast>>

\* the name reorderButtons gives the data moved to slot id
MovedName(id, name) ==
  IF name # "undefined" /\ name # ""
  THEN (IF StartsWithPad(name) THEN PadName(id) ELSE name)
  ELSE PadName(id)

\* newOrder: splice(fromIndex, 1) then splice(toIndex, 0, movedItem)
MovedOrder(order, fromIndex, toIndex) ==
  LET rest == RemoveAt(order, fromIndex)
  IN SubSeq(rest, 1, toIndex - 1) \o <<order[fromIndex]>> \o SubSeq(rest, toIndex, Len(rest))

\* reorderButtons(fromIndex, toIndex), indices counted from 1
ReorderButtons(fromIndex, toIndex) ==
  /\ mounted
  /\ fromIndex # toIndex
  /\ LET fromId == buttonOrder[fromIndex]
         toId == buttonOrder[toIndex]
         fromData == audioData[fromId]
         toData == audioData[toId]
     IN /\ audioData' =
             [audioData EXCEPT
                ![fromId] = [toData EXCEPT !.name = MovedName(fromId, toData.name)],
                ![toId] = [fromData EXCEPT !.name = MovedName(toId, fromData.name)]]
        /\ buttonOrder' = MovedOrder(buttonOrder, fromIndex, toIndex)
        /\ ret' = NoReturn
  /\ UNCHANGED <<isPlaying, outputDeviceId, sinkSupported, audioInstancesRefs,
                 audioNodesRef, cachedAudioRef, resourceCountRef, audioContextRef,
                 audios, calls, mounted, cleanupIntervalRef, startupTimer,
                 importing,
                 chunksRef, audioBlob, toast>>

\* setOutputDeviceId(deviceId)
SetOutputDeviceId(deviceId) ==
  /\ mounted
  /\ outputDeviceId' = deviceId
  /\ ret' = NoReturn
  /\ UNCHANGED <<audioData, isPlaying, buttonOrder, sinkSupported,
                 audioInstancesRefs, audioNodesRef, cachedAudioRef,
                 resourceCountRef, audioContextRef, audios, calls, mounted,
                 cleanupIntervalRef, startupTimer, importing,
                 chunksRef, audioBlob, toast>>

\* ----------------------------------------------------- sweep and teardown
RECURSIVE Total(_, _)
Total(lists, n) == IF n = 0 THEN 0 ELSE Len(lists[n]) + Total(lists, n - 1)

\* the sweep deciding on the ledger's counters as they were before the pass
PerformPeriodicCleanupStale(m) ==
  LET m1 == [m EXCEPT !.count.audioElements = Total(m.inst, NumSlots),
                      !.count.audioNodes = Total(m.nodes, NumSlots)]
  IN IF m.count.audioElements > SweepLimit \/ m.count.audioNodes > SweepLimit
     THEN ForceCleanupAllAudio(m1) ELSE m1

\* performPeriodicCleanup, had it kept a closed context
PerformPeriodicCleanupKeepsClosed(m) ==
  LET totalAudioElements == Total(m.inst, NumSlots)
      totalAudioNodes == Total(m.nodes, NumSlots)
      m1 == [m EXCEPT !.count.audioElements = totalAudioElements,
                      !.count.audioNodes = totalAudioNodes]
  IN IF totalAudioElements > SweepLimit \/ totalAudioNodes > SweepLimit
     THEN ForceCleanupAllAudio(m1) ELSE m1

PerformPeriodicCleanup(m) ==
  LET totalAudioElements == Total(m.inst, NumSlots)
      totalAudioNodes == Total(m.nodes, NumSlots)
      m1 == [m EXCEPT !.count.audioElements = totalAudioElements,
                      !.count.audioNodes = totalAudioNodes]
      m2 == IF totalAudioElements > SweepLimit \/ totalAudioNodes > SweepLimit
            THEN ForceCleanupAllAudio(m1) ELSE m1
  IN IF m2.ctx = "closed" THEN [m2 EXCEPT !.ctx = "null"] ELSE m2

\* a tick of setInterval(performPeriodicCleanup, 5 * 60 * 1000)
PeriodicSweep ==
  /\ cleanupIntervalRef
  /\ Commit(PerformPeriodicCleanup(Machine), calls)
  /\ ret' = NoReturn
  /\ UNCHANGED <<audioData, buttonOrder, outputDeviceId, sinkSupported, mounted,
                 cleanupIntervalRef, startupTimer, importing,
                 chunksRef, audioBlob, toast>>

\* setTimeout(performPeriodicCleanup, 30000) fires
StartupSweep ==
  /\ startupTimer
  /\ startupTimer' = FALSE
  /\ Commit(PerformPeriodicCleanup(Machine), calls)
  /\ ret' = NoReturn
  /\ UNCHANGED <<audioData, buttonOrder, outputDeviceId, sinkSupported, mounted,
                 cleanupIntervalRef, importing,
                 chunksRef, audioBlob, toast>>

\* the cleanup function of the mount effect, had it left the interval running
TeardownKeepsTimer ==
  /\ mounted
  /\ mounted' = FALSE
  /\ LET m == ForceCleanupAllAudio(Machine)
     IN Commit(IF m.ctx # "null" THEN [m EXCEPT !.ctx = "closed"] ELSE m, calls)
  /\ ret' = NoReturn
  /\ UNCHANGED <<audioData, buttonOrder, outputDeviceId, sinkSupported,
                 cleanupIntervalRef, startupTimer, importing,
                 chunksRef, audioBlob, toast>>

\* the cleanup function of the mount effect
Teardown ==
  /\ mounted
  /\ mounted' = FALSE
  /\ cleanupIntervalRef' = FALSE
  /\ LET m == ForceCleanupAllAudio(Machine)
     IN Commit(IF m.ctx # "null" THEN [m EXCEPT !.ctx = "closed"] ELSE m, calls)
  /\ ret' = NoReturn
  /\ UNCHANGED <<audioData, buttonOrder, outputDeviceId, sinkSupported,
                 startupTimer, importing,
                 chunksRef, audioBlob, toast>>

\* ------------------------------------------------------------- importData
\* settings[id] of an archive: absent, or the pad's settings; file is the clip
\* in pad-<id>.webm, NoClip when the archive has no such entry
NoPad == [present |-> FALSE, fields |-> NoFields, hasAudio |-> FALSE, file |-> NoClip]
Pad(fields, hasAudio, file) ==
  [present |-> TRUE, fields |-> fields, hasAudio |-> hasAudio, file |-> file]

\* newAudioData[id]
ImportedData(id, pad) ==
  IF pad.present
  THEN [name |-> OrElseStr(pad.fields.name, PadName(id)),
        speed |-> OrElse(pad.fields.speed, 4),
        balance |-> OrElse(pad.fields.balance, 0),
        echoDelay |-> IF pad.fields.echoDelay # Undefined THEN pad.fields.echoDelay ELSE 2,
        echoFeedback |-> OrElse(pad.fields.echoFeedback, 0),
        volume |-> IF pad.fields.volume # Undefined THEN pad.fields.volume ELSE 15,
        color |-> pad.fields.color,
        loop |-> pad.fields.loop,
        clip |-> IF pad.hasAudio THEN pad.file ELSE NoClip]
  ELSE [name |-> PadName(id), speed |-> 4, balance |-> 0, echoDelay |-> 2,
        echoFeedback |-> 0, volume |-> 15, color |-> "undefined",
        loop |-> "undefined", clip |-> NoClip]

\* some audioFile.async("blob") is awaited
LoadsAudio(archive) ==
  \E id \in Slots : LET pad == archive.pads[id]
                    IN pad.present /\ pad.hasAudio /\ pad.file # NoClip

\* "Clear cached audio before setting new data"
ClearCache(m) ==
  LET cached == {m.cache[s] : s \in Slots} \ {NoAudio}
  IN [m EXCEPT !.cache = [s \in Slots |-> NoAudio],
               !.au = [a \in DOMAIN m.au |->
                         IF a \in cached
                         THEN [m.au[a] EXCEPT !.playing = FALSE, !.atStart = TRUE,
                                              !.revoked = TRUE]
                         ELSE m.au[a]]]

\* no import has finished yet
NoToast == [kind |-> "none", imported |-> 0, missing |-> 0]

\* importedAudioCount: the pads of settings.json with hasAudio whose
\* pad-<id>.webm is in the archive
ImportedAudioCount(archive) ==
  Cardinality({id \in Slots : LET pad == archive.pads[id]
                              IN pad.present /\ pad.hasAudio /\ pad.file # NoClip})

\* missingAudioCount: the branch taken when zip.file(...) is null, for every
\* pad without a file
MissingAudioCountAnyPad(archive) ==
  Cardinality({id \in Slots : LET pad == archive.pads[id]
                              IN pad.present /\ pad.file = NoClip})

\* missingAudioCount: the pads of settings.json with hasAudio whose
\* pad-<id>.webm is not in the archive
MissingAudioCount(archive) ==
  Cardinality({id \in Slots : LET pad == archive.pads[id]
                              IN pad.present /\ pad.hasAudio /\ pad.file = NoClip})

\* toast.success(`Imported ... audio files (... missing)`)
ImportToast(archive) ==
  [kind |-> "success", imported |-> ImportedAudioCount(archive),
   missing |-> MissingAudioCount(archive)]

\* toast.error(`Import failed: ...`)
FailedToast == [kind |-> "error", imported |-> 0, missing |-> 0]

\* importData(file) for a well-formed archive, to its first await in the loop
\* over the pads, or to its end when no clip is loaded
ImportData(archive) ==
  /\ mounted
  /\ importing = <<>>
  /\ buttonOrder' = IF archive.order # <<>> THEN archive.order ELSE buttonOrder
  /\ IF LoadsAudio(archive)
     THEN /\ importing' = <<archive>>
          /\ UNCHANGED <<audioData, isPlaying, audioInstancesRefs, audioNodesRef,
                         cachedAudioRef, resourceCountRef, audioContextRef, audios,
                         calls, toast>>
     ELSE /\ importing' = <<>>
          /\ Commit(ClearCache(Machine), calls)
          /\ audioData' = [id \in Slots |-> ImportedData(id, archive.pads[id])]
          /\ toast' = ImportToast(archive)
  /\ ret' = NoReturn
  /\ UNCHANGED <<outputDeviceId, sinkSupported, mounted, cleanupIntervalRef,
                 startupTimer,
                 chunksRef, audioBlob>>

\* the clips are loaded (ok), or a load rejects and importData throws
ImportLoaded(ok) ==
  /\ importing # <<>>
  /\ importing' = <<>>
  /\ IF ok
     THEN /\ Commit(ClearCache(Machine), calls)
          /\ audioData' = [id \in Slots |-> ImportedData(id, importing[1].pads[id])]
          /\ toast' = ImportToast(importing[1])
     ELSE /\ toast' = FailedToast
          /\ UNCHANGED <<audioData, isPlaying, audioInstancesRefs, audioNodesRef,
                         cachedAudioRef, resourceCountRef, audioContextRef, audios,
                         calls>>
  /\ ret' = NoReturn
  /\ UNCHANGED <<buttonOrder, outputDeviceId, sinkSupported, mounted,
                 cleanupIntervalRef, startupTimer,
                 chunksRef, audioBlob>>

\* ---------------------------------------------------------- initial state
\* objects handleSave can pass: a plain pad, a looping pad (its echo settings
\* are kept), an echo pad, a pad that needs the effect graph (gain above 1,
\* balance off centre), another plain pad
Plain == SaveFields("Kick", 1, "false", 0, 0, 20, 0)
Looping == SaveFields("Kick", 1, "true", 4, 6, 20, 0)
Echoing == SaveFields("Kick", 2, "false", 4, 1, 20, 0)
Boosted == SaveFields("Kick", 2, "false", 0, 0, 30, 5)
Snare == SaveFields("Snare", 2, "false", 0, 0, 20, 0)

\* the state after the provider mounted and loadData finished, with
\* localStorage holding nothing for a slot outside `active`, and nothing or
\* one of `stored` for a slot in it
\* the pads pressed in the runs that study one pad: the pad and an empty one
Pressed == {1, 2}

InitWith(active, stored) ==
  /\ \E saved \in [active -> stored \cup {NoFields}] :
       audioData = [id \in Slots |->
                      IF id \in active /\ saved[id] # NoFields
                      THEN LoadedData(id, saved[id]) ELSE DefaultData(id)]
  /\ isPlaying = [id \in Slots |-> FALSE]
  /\ buttonOrder = [k \in 1 .. NumSlots |-> k]
  /\ outputDeviceId = ""
  /\ sinkSupported = TRUE
  /\ audioInstancesRefs = [id \in Slots |-> <<>>]
  /\ audioNodesRef = [id \in Slots |-> <<>>]
  /\ cachedAudioRef = [id \in Slots |-> NoAudio]
  /\ resourceCountRef = NoCounts
  /\ audioContextRef = "null"
  /\ audios = <<>>
  /\ calls = [k \in 1 .. MaxCalls |-> NoCall]
  /\ mounted = TRUE
  /\ cleanupIntervalRef = TRUE
  /\ startupTimer = TRUE
  /\ importing = <<>>
  /\ chunksRef = NoBlob
  /\ audioBlob = NoBlob
  /\ toast = NoToast
  /\ ret = NoReturn

\* ---------------------------------------------------------- specification
\* the environment's choices that can matter to a turn of playAudio on data
InputsFor(data) ==
  [newCtx : IF audioContextRef = "null" THEN {"fail", "suspended", "running"}
            ELSE {"running"},
   wireFail : IF NeedsWebAudio(data) THEN WireFailures ELSE {{}},
   playOk : IF HasEcho(data) THEN {TRUE} ELSE BOOLEAN]

\* The engine with one recorded pad that plays through the cached path
\* (plain, looping, or through the effect graph), the other pads empty.
Bounded == Len(audios) <= MaxLive /\ Total(audioInstancesRefs, NumSlots) <= MaxListed
Init == InitWith({1}, {Plain, Looping, Boosted})

Next ==
  \/ /\ \E id \in Pressed : \E in \in InputsFor(audioData[id]) : PlayAudio(id, in)
     /\ Bounded'
  \/ /\ \E k \in 1 .. MaxCalls, ok \in BOOLEAN :
          \E in \in InputsFor(calls[k].data) : Resumed(k, ok, in)
     /\ Bounded'
  \/ \E k \in 1 .. MaxCalls : PlayRejected(k)
  \/ \E k \in 1 .. MaxCalls, ok \in BOOLEAN, playOk \in BOOLEAN : Retried(k, ok, playOk)
  \/ \E a \in DOMAIN audios : Ended(a)
  \/ PeriodicSweep
  \/ Teardown

Spec == Init /\ [][Next]_vars

\* One pad whose echo settings, gain and loop flag range over the dialog's
\* sliders, triggered again and again before any timer fires or element ends.
Feedbacks == 0 .. 16                  \* echoFeedback slider: 0 to 0.8
Delays == {0, 1, 4}                   \* echoDelay: 0, 0.05 s, 0.2 s
Gains == {0, 15, 20, 40}              \* volume: 0, 0.75, 1, 2
BurstSaves ==
  {SaveFields("Kick", 1, "false", echoDelay, echoFeedback, volume, 0) :
     echoDelay \in Delays, echoFeedback \in Feedbacks, volume \in Gains}
  \cup {SaveFields("Kick", 1, "true", echoDelay, echoFeedback, 20, 0) :
          echoDelay \in Delays, echoFeedback \in {0, 6, 16}}
\* every audio.play() is fulfilled
BurstInputs(data) == {in \in InputsFor(data) : in.playOk}
BurstBounded == Len(audios) <= MaxBurstLive
InitBurst == InitWith({1}, BurstSaves)
NextBurst ==
  \/ /\ \E id \in Pressed : \E in \in BurstInputs(audioData[id]) : PlayAudio(id, in)
     /\ BurstBounded'
  \/ /\ \E k \in 1 .. MaxCalls, ok \in BOOLEAN :
          \E in \in BurstInputs(calls[k].data) : Resumed(k, ok, in)
     /\ BurstBounded'
SpecBurst == InitBurst /\ [][NextBurst]_vars

\* One recorded pad without loop, and nothing going wrong: every context is
\* created, every resume() and play() is fulfilled, every graph is built;
\* there is no edit, no sweep and no unmount. Elements play to their end.
NaturalInputs(data) ==
  {in \in InputsFor(data) : in.playOk /\ in.newCtx # "fail" /\ in.wireFail = {}}
InitNatural == InitWith({1}, {Plain, Echoing, Boosted})
NextNatural ==
  \/ /\ \E id \in Pressed : \E in \in NaturalInputs(audioData[id]) : PlayAudio(id, in)
     /\ Len(audios') <= MaxLive
  \/ /\ \E k \in 1 .. MaxCalls :
          \E in \in NaturalInputs(calls[k].data) : Resumed(k, TRUE, in)
     /\ Len(audios') <= MaxLive
  \/ \E a \in DOMAIN audios : Ended(a)
  \/ \E a \in DOMAIN audios : EchoTimer(a, TRUE)
SpecNatural == InitNatural /\ [][NextNatural]_vars

\* every instance started for slot id has reached its end: no element of the
\* slot is playing or waits for its timer, no trigger on the slot is awaiting
AllEnded(id) ==
  /\ \A a \in DOMAIN audios : audios[a].slot = id => ~audios[a].playing /\ ~audios[a].timer
  /\ \A k \in 1 .. MaxCalls : calls[k].pc # "idle" => calls[k].id # id

\* C3: for a slot without loop, once every instance started for it has
\* reached natural end-of-stream, with no edit, forced cleanup or playback
\* failure, its instance list is empty and it is marked not playing.
C3_IdleWhenAllEnded ==
  \A id \in Slots :
    (~Truthy(audioData[id].loop) /\ AllEnded(id)) =>
      audioInstancesRefs[id] = <<>> /\ ~isPlaying[id]

\* Two pads that are triggered, edited, deleted, dragged onto each other and
\* replaced by an import, with nothing going wrong in playback and before
\* any element ends.
StoreSaves == {Plain, Snare}
Edited == {1, 2}                      \* the pads and grid positions worked on
Archives ==
  {[order |-> <<>>,
    pads |-> [id \in Slots |-> IF id = 1 THEN Pad(Snare, TRUE, 2) ELSE NoPad]],
   [order |-> [k \in 1 .. NumSlots |-> IF k = 1 THEN 2 ELSE IF k = 2 THEN 1 ELSE k],
    pads |-> [id \in Slots |-> IF id = 1 THEN Pad(Plain, FALSE, NoClip) ELSE NoPad]]}
StoreInputs(data) == {in \in NaturalInputs(data) : in.newCtx = "running"}
StoreBounded ==
  /\ Len(audios) <= MaxLive
  /\ Total(audioInstancesRefs, NumSlots) <= MaxListed
  /\ resourceCountRef.audioElements <= MaxCount
  /\ resourceCountRef.audioNodes <= MaxCount
  /\ resourceCountRef.objectUrls <= MaxCount
InitStore == InitWith(Edited, StoreSaves)
NextStore ==
  \/ /\ \E id \in Edited : \E in \in StoreInputs(audioData[id]) : PlayAudio(id, in)
     /\ StoreBounded'
  \/ \E id \in Edited : \E data \in {Snare, DeleteFields(id)} :
       UpdateAudioData(id, data)
  \/ \E fromIndex \in Edited, toIndex \in Edited :
       ReorderButtons(fromIndex, toIndex)
  \/ \E archive \in Archives : ImportData(archive)
  \/ \E ok \in BOOLEAN : ImportLoaded(ok)
SpecStore == InitStore /\ [][NextStore]_vars

\* C9: a slot's cached instance, if present, was created from the clip now
\* stored for the slot, and every step that changes a slot's clip or
\* parameters (edit-save, delete, reorderButtons, import) leaves the slot
\* without a cache entry.
C9_CacheFromCurrentClip ==
  [][\A id \in Slots :
       /\ audioData'[id] # audioData[id] => cachedAudioRef'[id] = NoAudio
       /\ cachedAudioRef'[id] # NoAudio =>
            audios'[cachedAudioRef'[id]].clip = audioData'[id].clip]_vars

\* -------------------------------------- properties of a trigger (SpecBurst)
\* C1: whenever a trigger has just returned, no slot's instance list holds
\* more than the cap of 8 instances, the echo path included.
C1_CapAfterTrigger ==
  ret.path # "" => \A id \in Slots : Len(audioInstancesRefs[id]) <= MaxInstances

\* the last turn of playAudio was the return of a trigger on the scenario's
\* slot: echo delay 0.2 s, feedback 0.3, gain 1.0, balance 0, loop off
IsScenario ==
  /\ ret.path = "echo"
  /\ ret.data.clip # NoClip
  /\ ret.data.echoDelay = 4
  /\ ret.data.echoFeedback = 6
  /\ ret.data.volume = 20
  /\ ret.data.balance = 0
  /\ ~Truthy(ret.data.loop)
\* C5 as stated: the scenario's trigger registers exactly 4 instances, with
\* gains 1.0, 0.6, 0.18, 0.054 and fire offsets 0, 200, 400, 600 ms.
C5_ScenarioFourInstances ==
  IsScenario =>
    /\ ret.pushed = 4
    /\ Len(ret.regs) = 4
    /\ [i \in 1 .. 4 |-> ret.regs[i].volume]
         = <<320000000, 192000000, 57600000, 17280000>>
    /\ [i \in 1 .. 4 |-> ret.regs[i].delay] = <<0, 200, 400, 600>>
\* C5 amended: the scenario's trigger registers exactly 5 instances (indices
\* 0 to echo_count = 4), with gains 1.0, 0.6, 0.18, 0.054, 0.0162 and fire
\* offsets 0, 200, 400, 600, 800 ms.
C5_ScenarioFiveInstances ==
  IsScenario =>
    /\ ret.pushed = 5
    /\ Len(ret.regs) = 5
    /\ [i \in 1 .. 5 |-> ret.regs[i].volume]
         = <<320000000, 192000000, 57600000, 17280000, 5184000>>
    /\ [i \in 1 .. 5 |-> ret.regs[i].delay] = <<0, 200, 400, 600, 800>>
    /\ Len(audioInstancesRefs[ret.slot]) >= 5
\* the scenario's slot was triggered and the trigger returned
C5_Witness == IsScenario /\ ret.pushed > 0

\* C6: a trigger that took the echo path with feedback f (in twentieths)
\* registered exactly echo_count + 1 instances, echo_count being 3 for f up
\* to 0.15, 4 up to 0.3, 5 up to 0.45 and 6 from 0.5 on: between 4 and 7, each
\* a distinct new element with its timer scheduled, at the end of the list.
C6_EchoCountPlusOne ==
  ret.path = "echo" =>
    LET f == ret.data.echoFeedback
        n == 1 + (IF f <= 3 THEN 3 ELSE IF f <= 6 THEN 4 ELSE IF f <= 9 THEN 5 ELSE 6)
        list == audioInstancesRefs[ret.slot]
        added == {list[j] : j \in (Len(list) - n + 1) .. Len(list)}
    IN /\ f \in 1 .. 16
       /\ n \in 4 .. 7
       /\ ret.pushed = n
       /\ Len(ret.regs) = n
       /\ Len(list) >= n
       /\ Cardinality(added) = n
       /\ \A a \in added : audios[a].kind = "echo" /\ audios[a].timer
\* a trigger at the largest feedback, 0.8, registered its 7 instances
C6_Witness ==
  /\ ret.path = "echo"
  /\ ret.data.echoFeedback = 16
  /\ ret.pushed = 7

\* C7: after an echo trigger, for every index i from 0 to echo_count, the
\* scheduled delay is i * max(delay_seconds * 1000, 100) ms, the gain of
\* index 0 is the slot's configured gain and the gain of index i > 0 is
\* slot_gain * 0.6 * feedback^(i-1), whatever the configured gain in [0, 2].
C7_EchoDelayAndGain ==
  ret.path = "echo" =>
    \A i \in 0 .. (Len(ret.regs) - 1) :
      /\ ret.regs[i + 1].delay = i * Max((ret.data.echoDelay * 1000) \div Scale, 100)
      /\ ret.regs[i + 1].volume =
           IF i = 0 THEN ret.data.volume * (GainOne \div Scale)
           ELSE ret.data.volume * 3 * Pow(ret.data.echoFeedback, i - 1) * Pow(Scale, 6 - i)

\* C8: a turn of a trigger on a slot with loop on registers at most one
\* instance, and with no delay; no element of such a slot is an echo element
\* or has a timer pending, whatever its echo delay and feedback; and no echo
\* element has its loop flag set.
C8_LoopExcludesEcho ==
  /\ (ret.turn # "" /\ Truthy(ret.data.loop)) =>
       /\ ret.pushed <= 1
       /\ Len(ret.regs) <= 1
       /\ \A i \in DOMAIN ret.regs : ret.regs[i].delay = 0
  /\ \A a \in DOMAIN audios :
       /\ Truthy(audioData[audios[a].slot].loop) =>
            audios[a].kind # "echo" /\ ~audios[a].timer
       /\ audios[a].kind = "echo" => ~audios[a].loop
\* a slot with loop on and echo delay and feedback both set was triggered
\* and registered its one instance
C8_Witness ==
  /\ ret.path = "cached"
  /\ Truthy(ret.data.loop)
  /\ ret.data.echoDelay > 0
  /\ ret.data.echoFeedback > 0
  /\ ret.pushed = 1
  /\ audios[cachedAudioRef[ret.slot]].loop

\* ------------------------------------------- properties of the engine (Spec)
\* machine m holds nothing: no instance, node-set or cached instance for any
\* slot, no slot marked playing, every ledger counter zero
EngineEmpty(m) ==
  /\ \A id \in Slots : /\ m.inst[id] = <<>>
                        /\ m.nodes[id] = <<>>
                        /\ m.cache[id] = NoAudio
                        /\ ~m.playing[id]
  /\ m.count = NoCounts

\* C2: forced cleanup, from every reachable state, leaves every slot's
\* instance list, every slot's node-set list and the cache empty, every slot
\* not playing and all ledger counters zero; run again on its own result it
\* changes nothing. The unmount, which runs it, leaves the engine so.
C2_ForcedCleanupEmptiesAll ==
  [][/\ LET m == ForceCleanupAllAudio(Machine)
        IN EngineEmpty(m) /\ ForceCleanupAllAudio(m) = m
     /\ (mounted /\ ~mounted') => EngineEmpty(Machine')]_vars
\* the provider unmounted while a trigger was awaiting: its instance was
\* stopped and released by the forced cleanup
C2_Witness ==
  /\ ~mounted
  /\ audioContextRef = "closed"
  /\ EngineEmpty(Machine)
  /\ \E a \in DOMAIN audios : audios[a].revoked /\ ~audios[a].playing

\* C4: on a slot with a clip and loop on, a trigger while the slot is playing
\* is a stop (the slot is marked not playing, the cached instance is paused
\* and rewound, nothing is created or registered); a trigger while it is not
\* playing either finds no context, or waits for the context to resume, or
\* registers; and the turn that registers marks the slot playing and starts
\* the cached instance with its loop flag set.
C4_LoopToggle ==
  [][\A id \in Slots :
       LET isEntry == ret'.turn = "entry" /\ ret'.slot = id
           loops == audioData[id].clip # NoClip /\ Truthy(audioData[id].loop)
           a == cachedAudioRef'[id]
       IN /\ (isEntry /\ loops /\ isPlaying[id]) =>
               /\ ~isPlaying'[id]
               /\ UNCHANGED <<audioInstancesRefs, audioNodesRef, cachedAudioRef,
                              resourceCountRef, calls>>
               /\ Len(audios') = Len(audios)
               /\ ret'.pushed = 0
               /\ a # NoAudio => ~audios'[a].playing /\ audios'[a].atStart
          /\ (isEntry /\ loops /\ ~isPlaying[id]) =>
               \/ ret'.path = "nocontext" /\ audioContextRef' = "null"
               \/ \E k \in 1 .. MaxCalls : calls'[k].pc = "resume" /\ calls'[k].id = id
               \/ ret'.pushed = 1
          /\ (ret'.slot = id /\ Truthy(ret'.data.loop) /\ ret'.pushed > 0) =>
               /\ ret'.pushed = 1
               /\ isPlaying'[id]
               /\ a # NoAudio
               /\ audioInstancesRefs'[id][Len(audioInstancesRefs'[id])] = a
               /\ audios'[a].loop
               /\ ret'.regs[1].loop
               /\ \/ audios'[a].playing
                  \/ \E k \in 1 .. MaxCalls :
                       calls'[k].pc = "catch" /\ calls'[k].audio = a]_vars
\* a looping slot was started and then stopped by the next trigger
C4_Witness ==
  /\ ret.turn = "entry"
  /\ ret.path = "stop"
  /\ Truthy(audioData[ret.slot].loop)
  /\ ~isPlaying[ret.slot]
  /\ cachedAudioRef[ret.slot] # NoAudio
  /\ audios[cachedAudioRef[ret.slot]].loop
  /\ audios[cachedAudioRef[ret.slot]].atStart

\* C10: a trigger on a slot whose clip is absent changes nothing: no list,
\* ledger counter, cache entry, playing flag, element or context changes, and
\* no call is left awaiting.
C10_NoClipNoOp ==
  [][/\ (ret'.turn # "" /\ ret'.data.clip = NoClip) =>
          UNCHANGED <<isPlaying, audioInstancesRefs, audioNodesRef, cachedAudioRef,
                      resourceCountRef, audioContextRef, audios, calls>>
     /\ \A k \in 1 .. MaxCalls :
          calls'[k].pc # "idle" => calls'[k].data.clip # NoClip]_vars
\* an empty pad was triggered while another pad's instance was alive
C10_Witness ==
  /\ ret.turn = "entry"
  /\ ret.slot # 0
  /\ audioData[ret.slot].clip = NoClip
  /\ audios # <<>>
  /\ audioContextRef # "null"


\* ------------------------------------------------ the sweep on a full board
\* Every pad holds the plain clip and is pressed again and again while it
\* plays, pad after pad, so that the lists fill up to the cap one pad at a
\* time and no further; the two sweep timers fire at any moment.
InOrder(id) ==
  /\ \A j \in 1 .. id - 1 : Len(audioInstancesRefs[j]) = MaxInstances
  /\ Len(audioInstancesRefs[id]) < MaxInstances
InitSweep == InitWith(Slots, {Plain}) /\ \A id \in Slots : audioData[id].clip # NoClip
NextSweep ==
  \/ \E id \in Slots : \E in \in StoreInputs(audioData[id]) :
       InOrder(id) /\ PlayAudio(id, in)
  \/ PeriodicSweep
  \/ StartupSweep
SpecSweep == InitSweep /\ [][NextSweep]_vars

\* C11: after every pass of the sweep, if the instance lists or the node-set
\* lists together held more than 50 entries, the forced cleanup has run and
\* the lists, the cache and all counters are empty; otherwise the lists are
\* as before and the ledger's element and node counts equal their totals.
\* Either way neither count exceeds 50 after the pass.
C11_SweepRecounts ==
  [][(PeriodicSweep \/ StartupSweep) =>
       LET totalAudioElements == Total(audioInstancesRefs, NumSlots)
           totalAudioNodes == Total(audioNodesRef, NumSlots)
       IN /\ IF totalAudioElements > SweepLimit \/ totalAudioNodes > SweepLimit
             THEN EngineEmpty(Machine')
             ELSE /\ audioInstancesRefs' = audioInstancesRefs
                  /\ audioNodesRef' = audioNodesRef
                  /\ resourceCountRef'.audioElements = totalAudioElements
                  /\ resourceCountRef'.audioNodes = totalAudioNodes
          /\ resourceCountRef'.audioElements = Total(audioInstancesRefs', NumSlots)
          /\ resourceCountRef'.audioNodes = Total(audioNodesRef', NumSlots)
          /\ resourceCountRef'.audioElements <= SweepLimit
          /\ resourceCountRef'.audioNodes <= SweepLimit]_vars
\* a sweep found more than 50 listed instances and emptied the engine: the
\* context is in use, yet nothing is listed, cached or counted
C11_Witness ==
  /\ mounted
  /\ audioContextRef = "running"
  /\ ret = NoReturn
  /\ EngineEmpty(Machine)


\* C12: the unmount cancels the periodic sweep, runs the forced cleanup
\* whatever the counts are, and closes the context if there is one: right
\* after it the sweep timer is off, every instance list and node-set list
\* and the cache are empty, no slot is marked playing, and a context that
\* existed is closed.
C12_TeardownOrder ==
  [][(mounted /\ ~mounted') =>
       /\ ~cleanupIntervalRef'
       /\ \A id \in Slots : /\ audioInstancesRefs'[id] = <<>>
                            /\ audioNodesRef'[id] = <<>>
                            /\ cachedAudioRef'[id] = NoAudio
                            /\ ~isPlaying'[id]
       /\ audioContextRef' = IF audioContextRef = "null" THEN "null" ELSE "closed"
       /\ LET m == ForceCleanupAllAudio(Machine)
          IN /\ resourceCountRef' = m.count
             /\ \A a \in DOMAIN audios' : ~audios'[a].playing]_vars
\* the provider unmounted with its context open and the interval pending,
\* while an element wired to a graph was registered
C12_Witness ==
  /\ ~mounted
  /\ ~cleanupIntervalRef
  /\ audioContextRef = "closed"
  /\ \A id \in Slots : audioInstancesRefs[id] = <<>> /\ cachedAudioRef[id] = NoAudio
  /\ \E a \in DOMAIN audios : audios[a].graph = "disconnected"


\* C13: handling the end of an instance is idempotent: for every instance
\* that is playing to its end, dispatching `ended` to its handler a second
\* time leaves the instance lists, the node-set lists, the playing flags and
\* the three ledger counters as the first dispatch left them.
C13_EndedIdempotent ==
  \A a \in DOMAIN audios :
    (audios[a].playing /\ ~audios[a].loop /\ audios[a].onended # "none") =>
      LET once == DispatchEnded([Machine EXCEPT !.au = Pause(@, a)], a)
          twice == DispatchEnded(once, a)
      IN /\ twice.inst = once.inst
         /\ twice.nodes = once.nodes
         /\ twice.playing = once.playing
         /\ twice.count = once.count


\* ------------------------------------------ triggers with things going wrong
\* One recorded pad (with echo, or through the effect graph) and an output
\* device that is selected and deselected; the context may come up
\* suspended, and resume(), setSinkId() and the graph build may each fail.
\* Every play() is fulfilled, no element ends and no timer fires, and a pad
\* is pressed only when no earlier trigger is still awaiting.
Quiet == \A k \in 1 .. MaxCalls : calls[k].pc = "idle"
Devices == {"", "speakers"}
FaultInputs(data) == {in \in InputsFor(data) : in.playOk /\ in.newCtx # "fail"}
InitFaults == InitWith({1}, {Echoing, Boosted})
NextFaults ==
  \/ /\ Quiet
     /\ \E id \in Pressed : \E in \in FaultInputs(audioData[id]) : PlayAudio(id, in)
     /\ Len(audios') <= MaxLive
  \/ /\ \E k \in 1 .. MaxCalls, ok \in BOOLEAN :
          \E in \in FaultInputs(calls[k].data) : Resumed(k, ok, in)
     /\ Len(audios') <= MaxLive
  \/ /\ \E k \in 1 .. MaxCalls, ok \in BOOLEAN :
          \E in \in FaultInputs(calls[k].data) : EchoSinkSet(k, ok, in)
     /\ Len(audios') <= MaxLive
  \/ \E k \in 1 .. MaxCalls, ok \in BOOLEAN :
       \E in \in FaultInputs(calls[k].data) : SinkSet(k, ok, in)
  \/ \E deviceId \in Devices : SetOutputDeviceId(deviceId)
SpecFaults == InitFaults /\ [][NextFaults]_vars

\* the turn of playAudio just taken went on: it stopped at an await or
\* returned normally, and an instance it registered is the last of its
\* slot's list with its playback attempted (started, scheduled, or rejected
\* with the call in its catch block); the cached path marked the slot playing
\* with the registration, the echo path on its return
WentOn ==
  LET id == ret'.slot
      instances == audioInstancesRefs'[id]
      a == instances[Len(instances)]
  IN /\ ret'.path \in {"", "echo", "cached"}
     /\ ret'.pushed >= 1 =>
          /\ instances # <<>>
          /\ audios'[a].onended # "none"
          /\ \/ audios'[a].playing
             \/ audios'[a].timer
             \/ \E j \in 1 .. MaxCalls : calls'[j].pc = "catch" /\ calls'[j].audio = a
          /\ audios'[a].kind = "cached" => isPlaying'[id]
     /\ ret'.path \in {"echo", "cached"} => ret'.regs # <<>> /\ isPlaying'[id]

\* C14: a rejected resume(), a rejected setSinkId() and a failing graph build
\* do not abort the trigger: the turn in which one of them fails goes on to
\* the next await or to the normal return, registers its instance, marks the
\* slot playing and attempts playback, and the call never returns early.
C14_FaultsNeverAbort ==
  [][\A k \in 1 .. MaxCalls :
       /\ (calls[k].pc = "resume" /\ ret'.turn = "resumed" /\ ret'.slot = calls[k].id
           /\ audioContextRef' = "suspended") => WentOn
       /\ (calls[k].pc \in {"sink", "echoSink"} /\ ret'.turn \in {"sinkSet", "echoSinkSet"}
           /\ ret'.slot = calls[k].id) => WentOn /\ ret'.pushed = 1
       /\ (ret'.turn \in {"entry", "resumed", "sinkSet", "echoSinkSet"}
           /\ ret'.pushed >= 1 /\ NeedsWebAudio(ret'.data)) => WentOn]_vars
\* setSinkId was rejected for the cached element of a call, which went on to
\* register it, mark the slot playing and start it
C14_Witness ==
  /\ ret.turn = "sinkSet"
  /\ ret.path = "cached"
  /\ isPlaying[ret.slot]
  /\ outputDeviceId # ""
  /\ \E a \in DOMAIN audios :
       /\ audios[a].playing /\ ~audios[a].sink
       /\ audioInstancesRefs[ret.slot] = <<a>>


\* C15: a turn of a trigger that finds no context and cannot create one, or
\* that finds the held context closed, plays nothing: it registers no
\* instance, leaves the slot's playing flag as it was, and leaves the
\* instance lists, the node-set lists, the cache and the ledger unchanged.
C15_NoContextNoOp ==
  [][(/\ ret'.turn \in {"entry", "resumed"}
      /\ \/ ret'.path = "nocontext"
         \/ audioContextRef = "closed" /\ ret'.path \notin {"noclip", "stop"}) =>
       /\ ret'.pushed = 0
       /\ isPlaying' = isPlaying
       /\ audioInstancesRefs' = audioInstancesRefs
       /\ audioNodesRef' = audioNodesRef
       /\ cachedAudioRef' = cachedAudioRef
       /\ resourceCountRef' = resourceCountRef]_vars


\* C16: in every reachable state the three ledger counters (elements,
\* node-sets, object URLs) are non-negative.
C16_LedgerNonNegative ==
  /\ resourceCountRef.audioElements >= 0
  /\ resourceCountRef.audioNodes >= 0
  /\ resourceCountRef.objectUrls >= 0
\* the cached element of a pad has ended once (its URL was revoked and
\* counted off) and plays again: the ledger holds no URL, and the next end
\* counts one off again
C16_Witness ==
  /\ resourceCountRef.objectUrls = 0
  /\ \E a \in DOMAIN audios :
       /\ audios[a].playing /\ ~audios[a].loop
       /\ audios[a].revoked
       /\ audios[a].onended = "cached"


\* ------------------------------------------------- partial updates of a pad
\* One pad saved from the dialog with its gain, balance and echo at or off
\* their lowest values, then updated field by field: every partial sets one
\* group of fields and leaves the others absent.
MergeSaves ==
  {SaveFields("Kick", 1, "false", echoDelay, echoFeedback, volume, balance) :
     echoDelay \in {0, 4}, echoFeedback \in {0, 6}, volume \in {0, 20},
     balance \in {0, 5}}
Partials ==
  {NoFields,
   [NoFields EXCEPT !.name = "Clap"],
   [NoFields EXCEPT !.clip = 2],
   [NoFields EXCEPT !.speed = 8],
   [NoFields EXCEPT !.balance = 0 - 5],
   [NoFields EXCEPT !.echoDelay = 4, !.echoFeedback = 6],
   [NoFields EXCEPT !.volume = 30],
   [NoFields EXCEPT !.loop = "true"]}
InitMerge ==
  /\ InitWith({1}, MergeSaves)
  /\ audioData[1].clip # NoClip
NextMerge == \E data \in Partials : UpdateAudioData(1, data)
SpecMerge == InitMerge /\ [][NextMerge]_vars

\* C17: updateAudioData merges: whatever a pad holds, every field that a
\* partial update leaves absent is stored after the update with the value it
\* had before, a gain of 0 and a balance of 0 included.
C17_MergeKeepsAbsent ==
  \A id \in Slots : \A data \in Partials :
    LET prev == audioData[id]
        next == MergeData(id, prev, data)
    IN /\ data.name = "undefined" => next.name = prev.name
       /\ data.clip = NoClip => next.clip = prev.clip
       /\ data.speed = Undefined => next.speed = prev.speed
       /\ data.balance = Undefined => next.balance = prev.balance
       /\ data.echoDelay = Undefined => next.echoDelay = prev.echoDelay
       /\ data.echoFeedback = Undefined => next.echoFeedback = prev.echoFeedback
       /\ data.volume = Undefined => next.volume = prev.volume
       /\ data.color = "undefined" => next.color = prev.color
       /\ data.loop = "undefined" => next.loop = prev.loop


\* C18: deleting a pad (updateAudioData with the dialog's defaults and an
\* undefined clip) leaves the pad without a clip, so that a trigger on it
\* returns at once.
C18_DeleteClearsClip ==
  [][\A id \in Slots :
       UpdateAudioData(id, DeleteFields(id)) => audioData'[id].clip = NoClip]_vars


\* ----------------------------------------------- the dialog's trimSilence
\* A sample is an integer number of units of 1 / (32767 * 32768), so that
\* both sample * 0x7fff and the decoder's int16 / 32768 are exact.
PcmScale == 32767                     \* 0x7fff
PcmRange == 32768                     \* int16 / 32768 on decoding
FullScale == PcmScale * PcmRange      \* the sample 1.0
Threshold == 5368545                  \* 0.005 = 5368545.28 units
Abs(x) == IF x < 0 THEN 0 - x ELSE x

\* sample * 0x7fff written without the clamp to [-1, 1]
ToInt16Unclamped(sample) ==
  IF sample >= 0 THEN sample \div PcmRange ELSE 0 - ((0 - sample) \div PcmRange)

\* view.setInt16(offset, sample * 0x7fff): the clamp, then truncation to int16
ToInt16(sample) ==
  LET clamped == Max(0 - FullScale, Min(FullScale, sample))
  IN IF clamped >= 0 THEN clamped \div PcmRange ELSE 0 - ((0 - clamped) \div PcmRange)
\* a 16-bit PCM sample as decodeAudioData returns it
FromInt16(pcm) == pcm * PcmScale

\* view.setUint16 and view.setUint32 keep the low 16 or 32 bits; every
\* length and rate of the model is below 2^31, where setUint32 changes nothing
SetUint16(v) == v % 65536
SetUint32(v) == v

\* the 44-byte header bufferToWav writes (lines 142-154)
WavHeader(buffer) ==
  LET length == Len(buffer.channels[1])
      numberOfChannels == Len(buffer.channels)
  IN [riffSize |-> SetUint32(36 + length * numberOfChannels * 2),
      format |-> SetUint16(1),
      numChannels |-> SetUint16(numberOfChannels),
      sampleRate |-> SetUint32(buffer.sampleRate),
      byteRate |-> SetUint32(buffer.sampleRate * numberOfChannels * 2),
      blockAlign |-> SetUint16(numberOfChannels * 2),
      bitsPerSample |-> SetUint16(16),
      dataLength |-> SetUint32(length * numberOfChannels * 2)]

\* the samples bufferToWav writes after the header: frame by frame, the
\* channels of a frame in turn (lines 157-164)
WavData(buffer) ==
  LET numberOfChannels == Len(buffer.channels)
  IN [k \in 1 .. Len(buffer.channels[1]) * numberOfChannels |->
        ToInt16(buffer.channels[((k - 1) % numberOfChannels) + 1]
                               [((k - 1) \div numberOfChannels) + 1])]

\* bufferToWav(buffer)
BufferToWav(buffer) ==
  [type |-> "wav", header |-> WavHeader(buffer), data |-> WavData(buffer)]
\* new ArrayBuffer(44 + length * numberOfChannels * 2): two bytes a sample
WavSize(wav) == 44 + 2 * Len(wav.data)

\* audioContext.decodeAudioData of a blob that decodes
DecodeAudioData(blob) ==
  IF blob.type = "wav"
  THEN LET numChannels == blob.header.numChannels
           frames == blob.header.dataLength \div blob.header.blockAlign
       IN [sampleRate |-> blob.header.sampleRate,
           channels |-> [c \in 1 .. numChannels |->
                           [i \in 1 .. frames |->
                              FromInt16(blob.data[(i - 1) * numChannels + c])]]]
  ELSE [sampleRate |-> blob.sampleRate, channels |-> blob.channels]
Decodes(blob) == blob.type \in {"recorded", "wav"}
BufferLength(buffer) == Len(buffer.channels[1])

\* the first sample of channel 0 over the threshold, counted from 0; 0 when
\* there is none (lines 77-83)
FirstLoud(channelData) ==
  LET loud == {i \in DOMAIN channelData : Abs(channelData[i]) > Threshold}
  IN IF loud = {} THEN 0 ELSE (CHOOSE i \in loud : \A j \in loud : i <= j) - 1

\* startSample, had the 100 ms been cut only when no sample is over the threshold
StartSampleWhenSilent(buffer) ==
  LET channelData == buffer.channels[1]
      loud == {i \in DOMAIN channelData : Abs(channelData[i]) > Threshold}
  IN IF loud = {} /\ 10 * Len(channelData) > buffer.sampleRate
     THEN buffer.sampleRate \div 10
     ELSE FirstLoud(channelData)

\* startSample after lines 77-88: sampleRate * 0.1 is sampleRate / 10
StartSample(buffer) ==
  LET channelData == buffer.channels[1]
      startSample == FirstLoud(channelData)
  IN IF startSample = 0 /\ 10 * Len(channelData) > buffer.sampleRate
     THEN buffer.sampleRate \div 10
     ELSE startSample

\* startSample < sampleRate * 0.05 (line 91)
KeepsOriginal(buffer) == 20 * StartSample(buffer) < buffer.sampleRate

\* trimmedBuffer, copied from the start of the original instead of startSample
TrimmedBufferFromStart(buffer) ==
  LET trimmedLength == BufferLength(buffer) - StartSample(buffer)
  IN [sampleRate |-> buffer.sampleRate,
      channels |-> [c \in DOMAIN buffer.channels |->
                      [i \in 1 .. trimmedLength |-> buffer.channels[c][i]]]]

\* trimmedBuffer (lines 100-110)
TrimmedBuffer(buffer) ==
  LET startSample == StartSample(buffer)
      trimmedLength == BufferLength(buffer) - startSample
  IN [sampleRate |-> buffer.sampleRate,
      channels |-> [c \in DOMAIN buffer.channels |->
                      [i \in 1 .. trimmedLength |-> buffer.channels[c][i + startSample]]]]

\* trimSilence(audioBlob): the blob the promise resolves with
TrimSilence(blob) ==
  IF ~Decodes(blob) THEN blob
  ELSE LET audioBuffer == DecodeAudioData(blob)
       IN IF KeepsOriginal(audioBuffer) THEN blob
          ELSE BufferToWav(TrimmedBuffer(audioBuffer))

\* mediaRecorder.onstop: the recording is trimmed and becomes the dialog's clip
RecorderStopped(blob) ==
  /\ chunksRef' = blob
  /\ audioBlob' = TrimSilence(blob)
  /\ UNCHANGED <<audioData, isPlaying, buttonOrder, outputDeviceId, sinkSupported,
                 audioInstancesRefs, audioNodesRef, cachedAudioRef,
                 resourceCountRef, audioContextRef, audios, calls, mounted,
                 cleanupIntervalRef, startupTimer, importing, toast, ret>>

\* One recording is made in the dialog of an empty pad.
\* Recordings of up to MaxSamples samples at two rates for which 100 ms is 2
\* samples (20 per second: 50 ms is one sample) and 2.5 samples (25 per
\* second: 50 ms is 1.25 samples), mono or with a second channel; a sample
\* is silent, under the threshold, just over it, or beyond full scale.
Rates == {20, 25}
Faint == 0 - 3276700                  \* -100 / 32768, about -0.003
Edge == 5368600                       \* just over 0.005; 163 as int16
Loud == 0 - (FullScale + FullScale \div 5)   \* -1.2, beyond full scale
Samples == {0, Faint, Edge, Loud}
Mirror(channelData) ==
  [i \in DOMAIN channelData |-> 0 - channelData[Len(channelData) + 1 - i]]
Recordings ==
  LET takes == UNION {[1 .. n -> Samples] : n \in 1 .. MaxSamples}
  IN {[type |-> "recorded", sampleRate |-> rate, channels |-> <<ch>>] :
        rate \in Rates, ch \in takes}
     \cup {[type |-> "recorded", sampleRate |-> rate, channels |-> <<ch, Mirror(ch)>>] :
             rate \in Rates, ch \in takes}
     \cup {[type |-> "undecodable", sampleRate |-> 0, channels |-> <<>>]}
InitTrim == InitWith({1}, {Plain}) /\ audioData[1].clip = NoClip
NextTrim == chunksRef = NoBlob /\ \E blob \in Recordings : RecorderStopped(blob)
SpecTrim == InitTrim /\ [][NextTrim]_vars


\* the recording decoded, with channel 0's first sample over the threshold
\* (counted from 0, 0 when none is) and whether there is one
Recorded == DecodeAudioData(chunksRef)
HasLoud(buffer) == \E i \in DOMAIN buffer.channels[1] : Abs(buffer.channels[1][i]) > Threshold
LongerThan100ms(buffer) == 10 * BufferLength(buffer) > buffer.sampleRate

\* with trim point p the dialog's clip is the recording itself when p is
\* under 50 ms, and else the 16-bit encoding of the recording's tail from p
\* on, every channel of it, of length original length - p
TrimRule(p) ==
  IF 20 * p < Recorded.sampleRate THEN audioBlob = chunksRef
  ELSE LET clip == DecodeAudioData(audioBlob)
       IN /\ audioBlob.type = "wav"
          /\ clip.sampleRate = Recorded.sampleRate
          /\ DOMAIN clip.channels = DOMAIN Recorded.channels
          /\ \A c \in DOMAIN Recorded.channels :
               /\ Len(clip.channels[c]) = BufferLength(Recorded) - p
               /\ \A i \in 1 .. BufferLength(Recorded) - p :
                    clip.channels[c][i] = FromInt16(ToInt16(Recorded.channels[c][i + p]))

\* C20 as stated: the trim point is the first sample of channel 0 over the
\* threshold, and is forced to 100 ms only if there is no such sample and
\* the buffer is longer than 100 ms; under 50 ms the input is returned, else
\* the tail from the trim point on.
C20_ForcedOnlyWhenSilent ==
  (chunksRef # NoBlob /\ Decodes(chunksRef)) =>
    TrimRule(IF ~HasLoud(Recorded) /\ LongerThan100ms(Recorded)
             THEN Recorded.sampleRate \div 10
             ELSE FirstLoud(Recorded.channels[1]))

\* C20 amended: the trim point is forced to 100 ms whenever the first sample
\* over the threshold is sample 0 or there is none, and the buffer is longer
\* than 100 ms; under 50 ms the input is returned, else the tail from the
\* trim point on, every channel, of length original length - trim point.
C20_ForcedWhenNoLeadingSilence ==
  (chunksRef # NoBlob /\ Decodes(chunksRef)) =>
    TrimRule(IF /\ \/ ~HasLoud(Recorded)
                   \/ Abs(Recorded.channels[1][1]) > Threshold
                /\ LongerThan100ms(Recorded)
             THEN Recorded.sampleRate \div 10
             ELSE FirstLoud(Recorded.channels[1]))
\* a recording that is loud from its first sample and longer than 100 ms
\* lost its first 100 ms, in both channels
C20_Witness ==
  /\ chunksRef # NoBlob /\ Decodes(chunksRef)
  /\ Abs(Recorded.channels[1][1]) > Threshold
  /\ LongerThan100ms(Recorded)
  /\ Len(Recorded.channels) = 2
  /\ audioBlob # chunksRef
  /\ Len(DecodeAudioData(audioBlob).channels[2]) =
       BufferLength(Recorded) - Recorded.sampleRate \div 10

\* C19 as stated: trimming the clip that trimSilence returned returns that
\* clip unchanged, for every recording that decodes.
C19_TrimIdempotent ==
  (chunksRef # NoBlob /\ Decodes(chunksRef)) => TrimSilence(audioBlob) = audioBlob

\* C19 amended: trimming again returns the clip unchanged when the first
\* trimming returned the recording itself; a clip that begins over the
\* threshold, or holds no sample over it, is returned unchanged when it is
\* no longer than 100 ms and loses a further 100 ms when it is longer.
C19_TrimAgain ==
  (chunksRef # NoBlob /\ Decodes(chunksRef)) =>
    LET clip == DecodeAudioData(audioBlob)
        again == TrimSilence(audioBlob)
        noLeadingSilence == ~HasLoud(clip) \/ Abs(clip.channels[1][1]) > Threshold
    IN /\ audioBlob = chunksRef => again = audioBlob
       /\ (noLeadingSilence /\ ~LongerThan100ms(clip)) => again = audioBlob
       /\ (noLeadingSilence /\ LongerThan100ms(clip) /\ audioBlob # chunksRef) =>
            /\ again # audioBlob
            /\ BufferLength(DecodeAudioData(again)) =
                 BufferLength(clip) - clip.sampleRate \div 10
\* a recording was trimmed to a clip that begins over the threshold and is
\* longer than 100 ms
C19_Witness ==
  /\ chunksRef # NoBlob /\ Decodes(chunksRef)
  /\ audioBlob # chunksRef
  /\ Abs(DecodeAudioData(audioBlob).channels[1][1]) > Threshold
  /\ LongerThan100ms(DecodeAudioData(audioBlob))


\* C21: the container bufferToWav builds for a buffer of n samples a channel,
\* c channels and rate r is 44 + n*c*2 bytes long; its header holds c
\* channels, rate r, byte rate r*c*2, block align c*2, 16 bits a sample and
\* data length n*c*2; every sample written lies in -32767 .. 32767.
C21_WavContainer ==
  (chunksRef # NoBlob /\ audioBlob.type = "wav") =>
    LET n == BufferLength(Recorded) - StartSample(Recorded)
        c == Len(Recorded.channels)
        r == Recorded.sampleRate
    IN /\ WavSize(audioBlob) = 44 + n * c * 2
       /\ audioBlob.header.numChannels = c
       /\ audioBlob.header.sampleRate = r
       /\ audioBlob.header.byteRate = r * c * 2
       /\ audioBlob.header.blockAlign = c * 2
       /\ audioBlob.header.bitsPerSample = 16
       /\ audioBlob.header.dataLength = n * c * 2
       /\ \A k \in DOMAIN audioBlob.data :
            audioBlob.data[k] >= 0 - PcmScale /\ audioBlob.data[k] <= PcmScale
\* a two-channel recording was trimmed and encoded, and a sample beyond
\* full scale was written as -32767
C21_Witness ==
  /\ chunksRef # NoBlob /\ audioBlob.type = "wav"
  /\ audioBlob.header.numChannels = 2
  /\ \E k \in DOMAIN audioBlob.data :
       /\ audioBlob.data[k] = 0 - PcmScale
       /\ \E i \in DOMAIN Recorded.channels[1] : Recorded.channels[1][i] < 0 - FullScale

\* ------------------------------------------------------------------ import
\* Archives whose settings.json describes the first two pads or leaves
\* them out: a pad with its clip, a pad that claims a clip the archive does
\* not hold, a pad without audio, and a pad whose clip file is in the archive
\* although its settings claim none. Imports follow one another.
Imported == {1, 2}
ImportPads ==
  {NoPad, Pad(Snare, TRUE, 2), Pad(Snare, TRUE, NoClip), Pad(Plain, FALSE, NoClip),
   Pad(NoFields, FALSE, 2)}
ImportArchives ==
  {[order |-> <<>>,
    pads |-> [id \in Slots |-> IF id \in Imported THEN pads[id] ELSE NoPad]] :
     pads \in [Imported -> ImportPads]}
InitImport == InitWith({1}, {Plain})
NextImport ==
  \/ \E archive \in ImportArchives : ImportData(archive)
  \/ \E ok \in BOOLEAN : ImportLoaded(ok)
SpecImport == InitImport /\ [][NextImport]_vars

\* importData(file) ran to its toast.success on this archive in this step
ImportSucceeded(archive) ==
  \/ ~LoadsAudio(archive) /\ ImportData(archive)
  \/ importing = <<archive>> /\ ImportLoaded(TRUE)

\* the pads whose settings claim audio
ClaimsAudio(archive) ==
  {id \in Slots : archive.pads[id].present /\ archive.pads[id].hasAudio}

\* C22: after a successful import the slot store holds exactly the fixed slot
\* ids; an id absent from the archive's settings gets the default parameters
\* and no clip; a slot whose settings claim audio but whose clip entry is
\* missing is imported without a clip and counted as missing, and the
\* imported-audio count plus the missing-audio count is the number of slots
\* whose settings claim audio.
C22_ImportRepopulates ==
  [][\A archive \in ImportArchives :
       ImportSucceeded(archive) =>
         /\ DOMAIN audioData' = Slots
         /\ \A id \in Slots :
              ~archive.pads[id].present =>
                /\ audioData'[id].name = PadName(id)
                /\ audioData'[id].speed = 4
                /\ audioData'[id].balance = 0
                /\ audioData'[id].echoDelay = 2
                /\ audioData'[id].echoFeedback = 0
                /\ audioData'[id].volume = 15
                /\ audioData'[id].clip = NoClip
         /\ \A id \in ClaimsAudio(archive) :
              archive.pads[id].file = NoClip => audioData'[id].clip = NoClip
         /\ toast'.kind = "success"
         /\ toast'.missing =
              Cardinality({id \in ClaimsAudio(archive) : archive.pads[id].file = NoClip})
         /\ toast'.imported + toast'.missing = Cardinality(ClaimsAudio(archive))]_vars

\* an import finished that loaded one pad's clip, found another pad's clip
\* missing, and filled a pad that was not in the archive
C22_Witness ==
  /\ toast.kind = "success" /\ toast.imported = 1 /\ toast.missing = 1
  /\ audioData[1].name = "Snare" /\ audioData[1].clip = NoClip
  /\ audioData[2].name = "Snare" /\ audioData[2].clip = 2
  /\ audioData[3].name = PadName(3) /\ audioData[3].clip = NoClip

\* --------------------------------------------------------- idle and listed
\* C23: whenever a slot is not marked playing and no trigger for it is in
\* progress, its instance list is empty; in particular a looping slot that
\* was stopped has no instance registered.
C23_IdleMeansUnlisted ==
  \A id \in Slots :
    (~isPlaying[id] /\ \A k \in 1 .. MaxCalls : calls[k].pc # "idle" => calls[k].id # id)
      => audioInstancesRefs[id] = <<>>

\* ---------------------------------------------------------- cap eviction
\* One pad with or without echo, with unit or boosted gain, or looping,
\* triggered again and again on a running context until its list has been
\* cut back at the cap; no timer fires and nothing plays to its end,
\* so the list shrinks only when a trigger finds it full.
MaxCapLive == 16
CapSaves ==
  {SaveFields("Kick", 1, "false", echoDelay, echoFeedback, volume, 0) :
     echoDelay \in {0, 4}, echoFeedback \in {0, 1, 4, 7, 10, 16}, volume \in {20, 40}}
  \cup {SaveFields("Kick", 1, "true", 4, 6, 20, 0)}
InitCap == InitWith({1}, CapSaves)
NextCap ==
  /\ \E id \in Pressed : \E in \in StoreInputs(audioData[id]) : PlayAudio(id, in)
  /\ Len(audios') <= MaxCapLive
SpecCap == InitCap /\ [][NextCap]_vars

\* the elements a trigger dropped from the list of slot id at the cap while
\* their timers were pending
Evicted(id) ==
  {a \in DOMAIN audios :
     /\ audios[a].slot = id /\ audios[a].revoked /\ audios[a].timer
     /\ a \notin Range(audioInstancesRefs[id])}

\* C24: limitAudioInstances as a trigger runs it on the slot's list of n
\* entries: when n >= 8 exactly the n - 7 entries at the front are removed,
\* each of them is paused and has no node-set left, and the 7 entries that
\* remain are the last 7 in their order; when n < 8 nothing changes.
C24_CapEviction ==
  \A id \in Slots :
    LET instances == audioInstancesRefs[id]
        n == Len(instances)
        m == LimitAudioInstances(Machine, id)
    IN IF n >= MaxInstances
       THEN /\ Len(m.inst[id]) = MaxInstances - 1
            /\ m.inst[id] = SubSeq(instances, n - MaxInstances + 2, n)
            /\ \A k \in 1 .. n - MaxInstances + 1 :
                 /\ ~m.au[instances[k]].playing
                 /\ IndexOf(m.nodes[id], instances[k]) = 0
            /\ \A s \in Slots \ {id} : m.inst[s] = audioInstancesRefs[s]
       ELSE m = Machine

\* a trigger found more than 8 instances in the list, dropped at least three
\* from its front together with their node-sets, and registered its own
\* instances behind the 7 it kept
C24_Witness ==
  /\ ret.turn = "entry" /\ ret.slot = 1 /\ ret.pushed >= 4
  /\ Len(audioInstancesRefs[1]) = MaxInstances - 1 + ret.pushed
  /\ Cardinality(Evicted(1)) >= 3
  /\ \A a \in Evicted(1) :
       audios[a].graph = "disconnected" /\ IndexOf(audioNodesRef[1], a) = 0

\* ------------------------------------------------- the cached element reused
\* C25: a cached element that was built with an effect node-set never plays
\* without it: while it plays, also after a later trigger reused it and
\* after it reached its end once, its node-set is registered and connected.
C25_ReusedKeepsGraph ==
  \A id \in Slots :
    LET a == cachedAudioRef[id]
    IN (a # NoAudio /\ audios[a].graph # "none" /\ audios[a].playing) =>
         audios[a].graph = "connected" /\ IndexOf(audioNodesRef[id], a) > 0

\* C26: while a slot has a cache entry, the object URL behind the cached
\* element has not been revoked: the end of playback and the eviction at the
\* cap revoke the URL of fresh one-shot elements only.
C26_CachedUrlLive ==
  \A id \in Slots :
    cachedAudioRef[id] # NoAudio => ~audios[cachedAudioRef[id]].revoked

\* -------------------------------------------------------- the echo burst
\* One echo pad on a running context with nothing failing: it is triggered,
\* the timers of its instances fire and the instances play to their end, in
\* any order.
InitEcho == InitWith({1}, {Echoing})
NextEcho ==
  \/ /\ \E id \in Pressed : \E in \in StoreInputs(audioData[id]) : PlayAudio(id, in)
     /\ Len(audios') <= MaxLive
  \/ \E a \in DOMAIN audios : EchoTimer(a, TRUE)
  \/ \E a \in DOMAIN audios : Ended(a)
SpecEcho == InitEcho /\ [][NextEcho]_vars

\* the entries of seq that are not a
Without(seq, a) == SelectSeq(seq, LAMBDA x : x # a)

\* C27: every instance of an echo burst created on a running context has
\* exactly one node-set of its own and is not the cached element; the end of
\* an instance removes exactly that instance and its node-set, whatever the
\* order; once all have ended the slot's instance list and node-set list are
\* empty and the slot is idle.
C27_EchoBurstLifecycle ==
  \A id \in Slots :
    /\ (ret.turn = "entry" /\ ret.slot = id /\ ret.path = "echo") =>
         ret.pushed = EchoCount(ret.data) + 1
    /\ \A k \in DOMAIN audioInstancesRefs[id] :
         LET a == audioInstancesRefs[id][k]
         IN audios[a].kind = "echo" =>
              /\ Cardinality({n \in DOMAIN audioNodesRef[id] : audioNodesRef[id][n] = a}) = 1
              /\ audios[a].graph = "connected"
              /\ a # cachedAudioRef[id]
              /\ Cardinality({j \in DOMAIN audioInstancesRefs[id] :
                                audioInstancesRefs[id][j] = a}) = 1
    /\ \A a \in DOMAIN audios :
         (audios[a].slot = id /\ audios[a].onended = "echo" /\ audios[a].playing) =>
           LET m == DispatchEnded([Machine EXCEPT !.au = Pause(@, a)], a)
           IN /\ m.inst[id] = Without(audioInstancesRefs[id], a)
              /\ Len(m.inst[id]) = Len(audioInstancesRefs[id]) - 1
              /\ m.nodes[id] = Without(audioNodesRef[id], a)
              /\ Len(m.nodes[id]) = Len(audioNodesRef[id]) - 1
    /\ (HasEcho(audioData[id]) /\ AllEnded(id)) =>
         /\ audioInstancesRefs[id] = <<>>
         /\ audioNodesRef[id] = <<>>
         /\ ~isPlaying[id]

\* a burst was created and every instance of it has played to its end
C27_Witness ==
  /\ audioContextRef = "running" /\ HasEcho(audioData[1]) /\ AllEnded(1)
  /\ resourceCountRef.audioNodes = 0
  /\ audioInstancesRefs[1] = <<>> /\ ~isPlaying[1]

\* --------------------------------------------- forced cleanup and the timers
\* The echo pad of SpecEcho in a provider that can unmount at any moment;
\* the unmount runs the forced cleanup.
NextCancel ==
  \/ /\ \E id \in Pressed : \E in \in StoreInputs(audioData[id]) : PlayAudio(id, in)
     /\ Len(audios') <= MaxLive
  \/ \E a \in DOMAIN audios : EchoTimer(a, TRUE)
  \/ \E a \in DOMAIN audios : Ended(a)
  \/ Teardown
SpecCancel == InitEcho /\ [][NextCancel]_vars

\* C28: after a forced cleanup no instance created before it starts
\* playback, the echo instances whose timer had not fired included. (After
\* the unmount nothing is created, so every element is from before it.)
C28_CleanupCancelsAll ==
  ~mounted => \A a \in DOMAIN audios : ~audios[a].playing

\* ------------------------------------------------------ the closed context
\* One pad that plays through the cached path in a provider that unmounts:
\* the unmount closes the context, and a sweep that was scheduled before
\* still runs. Contexts may fail to come up or come up suspended.
ClosedInputs(data) == {in \in InputsFor(data) : in.playOk /\ in.wireFail = {}}
InitClosed == InitWith({1}, {Plain, Boosted})
NextClosed ==
  \/ /\ \E id \in Pressed : \E in \in ClosedInputs(audioData[id]) : PlayAudio(id, in)
     /\ Bounded'
  \/ /\ \E k \in 1 .. MaxCalls, ok \in BOOLEAN :
          \E in \in ClosedInputs(calls[k].data) : Resumed(k, ok, in)
     /\ Bounded'
  \/ \E a \in DOMAIN audios : Ended(a)
  \/ PeriodicSweep
  \/ StartupSweep
  \/ Teardown
SpecClosed == InitClosed /\ [][NextClosed]_vars

\* a trigger on slot id from the present state creates a context before it
\* registers anything: unless it only stops a loop or the creation fails
\* (then nothing is registered), the engine holds a live context after its
\* first turn
TriggerCreatesContext(id) ==
  \A in \in InputsFor(audioData[id]) :
    LET r == PlayAudioEntry(Machine, id, audioData[id], isPlaying[id],
                            outputDeviceId # "" /\ sinkSupported, in)
    IN audioData[id].clip # NoClip =>
         /\ r.c.regs # <<>> => r.m.ctx \in {"suspended", "running"}
         /\ r.c.path \in {"stop", "nocontext"} =>
              r.c.regs = <<>> /\ r.m.inst = audioInstancesRefs
         /\ r.c.path \notin {"stop", "nocontext"} => r.m.ctx = in.newCtx

\* C29: a sweep pass that finds the held context closed leaves the engine
\* without a context reference, and a trigger that runs from there past the
\* clip check creates a fresh context before it registers any instance.
C29_ClosedContextReplaced ==
  [][(audioContextRef = "closed" /\ (PeriodicSweep \/ StartupSweep)) =>
       /\ audioContextRef' = "null"
       /\ (\A id \in Slots : TriggerCreatesContext(id))']_vars

\* the sweep scheduled at mount ran after the unmount had closed the
\* context that a trigger on a recorded pad had created
C29_Witness ==
  /\ ~mounted /\ ~startupTimer
  /\ audioContextRef = "null"
  /\ resourceCountRef.objectUrls = 0
  /\ audioData[1].clip # NoClip
  /\ \E a \in DOMAIN audios : audios[a].revoked

\* ------------------------------------------------------ play and the retry
\* One pad on the cached path whose context comes up suspended or running
\* and is suspended and resumed by the browser at any moment; resume() and
\* play() are fulfilled or rejected.
InitRetry == InitWith({1}, {Plain, Looping})
NextRetry ==
  \/ /\ \E id \in Pressed : \E in \in InputsFor(audioData[id]) : PlayAudio(id, in)
     /\ Bounded'
  \/ /\ \E k \in 1 .. MaxCalls, ok \in BOOLEAN :
          \E in \in InputsFor(calls[k].data) : Resumed(k, ok, in)
     /\ Bounded'
  \/ \E k \in 1 .. MaxCalls : PlayRejected(k)
  \/ \E k \in 1 .. MaxCalls, ok \in BOOLEAN, playOk \in BOOLEAN : Retried(k, ok, playOk)
  \/ ContextStateChange
SpecRetry == InitRetry /\ [][NextRetry]_vars

\* C30: on the non-echo path a trigger calls play() at most twice; the second
\* call is made only after the first was rejected while the context was
\* suspended, and after exactly one resume() in between; whatever the second
\* call does, the trigger returns: a second rejection is caught, not retried.
C30_PlayAtMostTwice ==
  [][/\ ret'.plays <= 2
     /\ ret'.plays = 2 => ret'.turn = "retried" /\ ret'.resumes = 1
     /\ \A k \in 1 .. MaxCalls :
          /\ calls'[k].plays <= 1
          /\ (calls[k].pc # "retry" /\ calls'[k].pc = "retry") =>
               /\ calls[k].pc = "catch" /\ audioContextRef = "suspended"
               /\ calls'[k].plays = 1 /\ calls'[k].resumes = 1
          /\ (calls[k].pc = "catch" /\ calls'[k].pc # "catch"
                /\ audioContextRef # "suspended") =>
               /\ calls'[k].pc = "idle"
               /\ ret'.path = "failed" /\ ret'.plays = 1 /\ ret'.resumes = 0
          /\ (calls[k].pc = "retry" /\ calls'[k].pc # "retry") =>
               /\ calls'[k].pc = "idle"
               /\ ret'.turn = "retried" /\ ret'.path \in {"cached", "failed"}
               /\ ret'.resumes = 1]_vars

\* a trigger whose first play() was rejected on a suspended context resumed
\* it, called play() again, was rejected again and returned
C30_Witness ==
  /\ ret.turn = "retried" /\ ret.path = "failed"
  /\ ret.plays = 2 /\ ret.resumes = 1
  /\ audioContextRef = "running"
  /\ \A k \in 1 .. MaxCalls : calls[k].pc = "idle"

\* ------------------------------------------------ invariants of the lists
\* C31: in every reachable state no element appears more than once in a
\* slot's instance list: a trigger on a slot whose cached element is already
\* registered does not register it a second time.
C31_ListedOnce ==
  \A id \in Slots :
    \A j \in DOMAIN audioInstancesRefs[id], k \in DOMAIN audioInstancesRefs[id] :
      audioInstancesRefs[id][j] = audioInstancesRefs[id][k] => j = k

\* C33: an element whose every start attempt was rejected (play() and its
\* retry on the cached path) does not stay registered, and the slot does not
\* stay marked playing because of it: once the trigger has given up and
\* nothing of the slot plays or waits for a timer, the list is empty and the
\* slot idle.
C33_RejectedNotListed ==
  \A id \in Slots :
    (ret.slot = id /\ ret.path = "failed" /\ AllEnded(id)) =>
      audioInstancesRefs[id] = <<>> /\ ~isPlaying[id]

\* C34: in every reachable state every element of a slot's list that was
\* created on the cached path is the slot's current cache entry: an edit, an
\* import or a forced cleanup never leaves a torn-down cached element
\* registered.
C34_ListedCachedIsCurrent ==
  \A id \in Slots :
    \A k \in DOMAIN audioInstancesRefs[id] :
      audios[audioInstancesRefs[id][k]].kind = "cached" =>
        audioInstancesRefs[id][k] = cachedAudioRef[id]

\* C37: no pass of performPeriodicCleanup runs after the teardown, whether
\* the teardown comes before or after the start-up sweep is due.
C37_NoSweepAfterTeardown ==
  [][~mounted => ~(PeriodicSweep \/ StartupSweep)]_vars

\* --------------------------------------------------- overlapping triggers
\* One pad on the cached path triggered again and again while the context
\* comes up suspended or running and is suspended and resumed by the browser:
\* a trigger waits at resume() while the next one runs.
MaxOverlap == 9
OverlapInputs(data) ==
  {in \in InputsFor(data) : in.playOk /\ in.wireFail = {} /\ in.newCtx # "fail"}
InitOverlap == InitWith({1}, {Plain, Boosted})
NextOverlap ==
  \/ /\ \E id \in Pressed : \E in \in OverlapInputs(audioData[id]) : PlayAudio(id, in)
     /\ \A id \in Slots : Len(audioInstancesRefs'[id]) <= MaxOverlap
  \/ /\ \E k \in 1 .. MaxCalls, ok \in BOOLEAN :
          \E in \in OverlapInputs(calls[k].data) : Resumed(k, ok, in)
     /\ \A id \in Slots : Len(audioInstancesRefs'[id]) <= MaxOverlap
  \/ ContextStateChange
SpecOverlap == InitOverlap /\ [][NextOverlap]_vars

\* C35: the instance list of a slot without echo never holds more than 8
\* entries, also when trigger calls on the slot overlap at their awaits
\* between the cap check and the registration.
C35_CapUnderOverlap ==
  \A id \in Slots :
    ~HasEcho(audioData[id]) => Len(audioInstancesRefs[id]) <= MaxInstances

\* ------------------------------------------------- triggers one at a time
\* One pad whose echo settings and gain range over the dialog's sliders,
\* triggered again and again, each trigger only after the one before has
\* registered its instances and returned; no timer fires and nothing ends.
MaxDeepLive == 21
InitDeep == InitWith({1}, BurstSaves)
NextDeep ==
  \/ /\ Quiet
     /\ \E id \in Pressed : \E in \in NaturalInputs(audioData[id]) : PlayAudio(id, in)
     /\ Len(audios') <= MaxDeepLive
  \/ /\ \E k \in 1 .. MaxCalls :
          \E in \in NaturalInputs(calls[k].data) : Resumed(k, TRUE, in)
     /\ Len(audios') <= MaxDeepLive
SpecDeep == InitDeep /\ [][NextDeep]_vars

\* C36: when the triggers on a slot do not overlap, its instance list never
\* holds more than 14 entries: at most 7 kept by the cap and at most 7
\* registered by one echo burst.
C36_AtMostFourteen ==
  \A id \in Slots : Len(audioInstancesRefs[id]) <= 2 * (MaxInstances - 1)

\* a trigger found 14 instances listed, kept 7 of them and registered the 7
\* of its own burst
C36_Witness ==
  /\ ret.turn \in {"entry", "resumed"} /\ ret.slot = 1 /\ ret.path = "echo"
  /\ ret.pushed = MaxInstances - 1
  /\ Len(audioInstancesRefs[1]) = 2 * (MaxInstances - 1)
  /\ Cardinality(Evicted(1)) = MaxInstances - 1

\* ------------------------------------------------ lists, flags, node-sets
\* One recorded pad on the cached path, triggered while an earlier trigger
\* waits at resume(); the context suspends and runs again by itself, the
\* pad is edited, elements play to their end and the provider is unmounted,
\* in any order. Contexts are created and every play() is fulfilled.
MaxListCells == 2
ListSaves == {Plain, Boosted}
ListBounded ==
  /\ Len(audios) <= MaxListCells
  /\ \A id \in Slots : Len(audioInstancesRefs[id]) <= MaxInstances
  /\ resourceCountRef.audioElements <= MaxListCells
  /\ resourceCountRef.audioNodes <= MaxListCells
  /\ resourceCountRef.objectUrls <= MaxListCells
InitLists == InitWith({1}, ListSaves)
NextLists ==
  \/ /\ \E in \in NaturalInputs(audioData[1]) : PlayAudio(1, in)
     /\ ListBounded'
  \/ /\ \E k \in 1 .. MaxCalls :
          \E in \in NaturalInputs(calls[k].data) : Resumed(k, TRUE, in)
     /\ ListBounded'
  \/ \E data \in ListSaves : UpdateAudioData(1, data)
  \/ \E a \in DOMAIN audios : Ended(a)
  \/ ContextStateChange
  \/ Teardown
SpecLists == InitLists /\ [][NextLists]_vars

\* C32: in every reachable state a slot that is marked playing has at least
\* one instance in its instance list, also when cap eviction, forced
\* cleanup, edits and end-of-stream callbacks interleave with a trigger
\* that is suspended at an await.
C32_PlayingHasInstance ==
  \A id \in Slots : isPlaying[id] => audioInstancesRefs[id] # <<>>

\* the slot is marked playing with its list full again after the cap took
\* the element's count away, while a trigger on the slot waits at resume()
C32_Witness ==
  /\ isPlaying[1]
  /\ Len(audioInstancesRefs[1]) = MaxInstances
  /\ resourceCountRef.audioElements = 0
  /\ \E k \in 1 .. MaxCalls : calls[k].pc = "resume" /\ calls[k].id = 1

\* C38: in every reachable state every registered node-set belongs to an
\* instance that is in the same slot's instance list, and no instance has
\* more than one node-set; hence per slot there are never more node-sets
\* than registered instances.
C38_NodeSetsOfListed ==
  \A id \in Slots :
    /\ \A k \in DOMAIN audioNodesRef[id] :
         IndexOf(audioInstancesRefs[id], audioNodesRef[id][k]) > 0
    /\ \A j \in DOMAIN audioNodesRef[id], k \in DOMAIN audioNodesRef[id] :
         audioNodesRef[id][j] = audioNodesRef[id][k] => j = k
    /\ Len(audioNodesRef[id]) <= Len(audioInstancesRefs[id])

\* after an edit the slot's list holds the element cached before the edit
\* and the one cached after it, each with its node-set, and the newer one
\* more than once, while a trigger on the slot waits at resume()
C38_Witness ==
  /\ Len(audioNodesRef[1]) > 1
  /\ Len(audioInstancesRefs[1]) > Len(audioNodesRef[1])
  /\ \A k \in DOMAIN audioNodesRef[1] : audios[audioNodesRef[1][k]].graph = "connected"
  /\ \E k \in 1 .. MaxCalls : calls[k].pc = "resume" /\ calls[k].id = 1

====
